---- MODULE Spec2Model ----
(***************************************************************************)
(* A model of base::ServerAuthenticator (source/base/net/                  *)
(* server_authenticator.cc): the server side of the handshake, driven by   *)
(* the channel's listener callbacks, the timeout timer and the public      *)
(* configuration calls.                                                    *)
(*                                                                         *)
(* The model is of the build in which DCHECK is compiled out (NDEBUG):     *)
(* NOTREACHED() is DCHECK(false) and does nothing there, so the default    *)
(* branches of the two switch statements over internal_state_ fall through *)
(* to `break`.                                                             *)
(*                                                                         *)
(* The module also models client::FileTransfer (client/file_transfer.cc),  *)
(* the coordinator of a file copy between a source and a target endpoint,  *)
(* driven by the queue builder's result, the replies to its file requests, *)
(* the answers of the transfer window and the cancel timer.  The two       *)
(* objects do not interact: Spec moves the authenticator and leaves the    *)
(* transfer as constructed, SpecFT moves the transfer and leaves the       *)
(* authenticator as constructed.                                           *)
(***************************************************************************)
EXTENDS Integers, Sequences, FiniteSets, TLC

VARIABLES
    state_,             \* State: STOPPED, PENDING, SUCCESS, FAILED
    internal_state_,    \* InternalState
    channel_,           \* the unique_ptr: "null" or "held"
    key_pair_,          \* "invalid" or "valid"
    encrypt_iv_,        \* 0 = empty byte array, otherwise the value drawn
    decrypt_iv_,        \* 0 = empty byte array, otherwise the client's value
    anonymous_access_,  \* "ENABLE" or "DISABLE"
    session_types_,     \* bitmask of allowed session types
    session_type_,      \* the session type the client selected
    identify_,          \* identify method of the ClientHello
    encryption_,        \* cipher written into ServerHello
    session_key_,       \* [ka, srp]: what was hashed into the key
    user_name_,         \* user name of SrpIdentify
    srp_,               \* [N, g, s, v, b, B, A]: the SRP numbers
    peer_version_,      \* version of SessionResponse
    timer_active,       \* timer_ is armed
    listener,           \* the authenticator is the channel's listener
    paused,             \* the channel does not deliver inbound messages
    chan_alive,         \* the channel object exists (not yet destroyed)
    cipher,             \* encryptor/decryptor installed into the channel
    sent,               \* messages handed to channel_->send, in order
    written,            \* how many of them had their write completed
    on_complete,        \* number of delegate_->onComplete() calls
    hasAesNi,           \* CPUID::hasAesNi() of the machine
    hello,              \* the ClientHello onClientHello worked on, if any
    response,           \* the SessionResponse onSessionResponse worked on
    taken,              \* number of non-null results of takeChannel()
    ever,               \* which of timer_.start(), setListener(this) and
                        \* resume() were ever called
    last                \* the last call: its name, result and the
                        \* internal state it found

vars == <<state_, internal_state_, channel_, key_pair_, encrypt_iv_,
          decrypt_iv_, anonymous_access_, session_types_, session_type_,
          identify_, encryption_, session_key_, user_name_, srp_,
          peer_version_, timer_active, listener, paused, chan_alive, cipher,
          sent, written, on_complete, hasAesNi, hello, response, taken, ever,
          last>>

VARIABLES
    type_,                      \* Type: DOWNLOADER or UPLOADER
    request_factory_source_,    \* its FileTaskTarget, "null" before start()
    request_factory_target_,    \* its FileTaskTarget, "null" before start()
    finish_callback_,           \* TRUE while the callback is set
    queue_builder_,             \* "null" or "building"
    tasks_,                     \* the task queue
    total_size_,
    is_canceled_,
    cancel_timer_,              \* TRUE while the timer is active
    actions_,                   \* Error::Type -> the action stored, or "NONE"
    task_percentage_,
    total_percentage_,
    task_transfered_size_,
    total_transfered_size_,
    requests,                   \* file requests handed to doRequest and not
                                \* yet replied
    source_file,                \* bytes the source has still to read of the
                                \* file it has open, NoFile when none is open
    prompt,                     \* errors given to the window's errorOccurred
                                \* and not yet answered
    calls,                      \* the calls of transfer_window_proxy_->stop()
                                \* and of the finish callback, in order
    progress,                   \* the pair last given to setCurrentProgress,
                                \* <<>> when none was
    packet_requests,            \* the packet requests issued for the front
                                \* task since it was last started
    ft_last                     \* the last event the transfer handled

ftvars == <<type_, request_factory_source_, request_factory_target_,
            finish_callback_, queue_builder_, tasks_, total_size_,
            is_canceled_, cancel_timer_, actions_, task_percentage_,
            total_percentage_, task_transfered_size_, total_transfered_size_,
            requests, source_file, prompt, calls, progress,
            packet_requests, ft_last>>

\* What onFailed writes.
failv == <<timer_active, listener, channel_, chan_alive, state_, on_complete>>

\* The configuration the setters write.
configv == <<key_pair_, encrypt_iv_, anonymous_access_, session_types_>>

----------------------------------------------------------------------------
(* Bounds of the model *)

\* Session type bitmasks have SessionBits bits.
SessionBits == 2
\* Random::byteArray yields 0 (empty) or one of 1..MaxIv.
MaxIv == 1
\* The random SRP secret b is one of 1..MaxB.
MaxB == 2
\* Messages the server may send within one handshake.
MaxSent == 4
\* The queue builder yields at most MaxTasks tasks.
MaxTasks == 2
\* The largest file has MaxFileSize bytes.
MaxFileSize == 4
\* common::kMaxFilePacketSize, scaled down.
kMaxFilePacketSize == 3

----------------------------------------------------------------------------
(* Bit arithmetic on uint32 masks *)

RECURSIVE BitAnd(_, _)
BitAnd(a, b) ==
    IF a = 0 \/ b = 0 THEN 0
    ELSE (IF (a % 2) = 1 /\ (b % 2) = 1 THEN 1 ELSE 0)
             + (2 * BitAnd(a \div 2, b \div 2))

\* BitSet<uint32_t>::count()
RECURSIVE BitCount(_)
BitCount(a) == IF a = 0 THEN 0 ELSE (a % 2) + BitCount(a \div 2)

Masks == 0 .. (2 ^ SessionBits - 1)

ENCRYPTION_AES256_GCM == 1
ENCRYPTION_CHACHA20_POLY1305 == 2

States == {"STOPPED", "PENDING", "SUCCESS", "FAILED"}

ReadStates == {"READ_CLIENT_HELLO", "READ_IDENTIFY", "READ_CLIENT_KEY_EXCHANGE",
               "READ_SESSION_RESPONSE"}
SendStates == {"SEND_SERVER_HELLO", "SEND_SERVER_KEY_EXCHANGE",
               "SEND_SESSION_CHALLENGE"}

----------------------------------------------------------------------------
(* The user directory and the SRP arithmetic, on small numbers *)

NullNum == 0 - 1

UserNames == {"alice", "bob", "carol", "ghost"}

\* UserList::find: alice is enabled, bob is disabled, carol is enabled with
\* an SRP group that pairByGroup does not know; ghost is not in the list.
UserList ==
    [n \in {"alice", "bob", "carol"} |->
        [enabled  |-> n # "bob",
         group    |-> IF n = "carol" THEN "unknown" ELSE "8192",
         salt     |-> 5,
         verifier |-> 4,
         sessions |-> 2]]

userIsValid(name) == name \in DOMAIN UserList

kSrpNgPair_8192 == [N |-> 7, g |-> 3]

pairByGroup(group) == IF group = "8192" THEN <<kSrpNgPair_8192>> ELSE <<>>

\* BLAKE2b512(seed_key || username) as a number: a fixed function of the name.
DecoySalt(name) ==
    CASE name = "alice" -> 1 [] name = "bob" -> 2 [] name = "carol" -> 3
      [] OTHER -> 6

\* SrpMath::calc_v: g^x mod N, x a hash of salt, name and seed key.
calc_v(name, s, N, g) == (g ^ (1 + ((s + DecoySalt(name)) % 3))) % N

\* SrpMath::calc_B: (k*v + g^b) mod N; an invalid number when that is 0.
calc_B(b, N, g, v) ==
    LET k == 1 + ((N + g) % 5)
        B == ((k * v) + (g ^ b)) % N
    IN IF B = 0 THEN NullNum ELSE B

\* SrpMath::verify_A_mod_N
verify_A_mod_N(A, N) == A # NullNum /\ A % N # 0

\* SrpMath::calc_u: H(A, B) mod N; an invalid number when that is 0.
calc_u(A, B, N) ==
    LET u == ((2 * A) + B + 1) % N IN IF u = 0 THEN NullNum ELSE u

\* SrpMath::calcServerKey: (A * v^u)^b mod N
calcServerKey(A, v, u, b, N) ==
    IF u = NullNum THEN NullNum ELSE ((A * (v ^ u)) ^ b) % N

isValid(num) == num # NullNum

NoSrp == [N |-> NullNum, g |-> NullNum, s |-> NullNum, v |-> NullNum,
          b |-> NullNum, B |-> NullNum, A |-> NullNum]

\* ByteArray session_key_: empty, or the hash of what went into it.
EmptyKey == [ka |-> FALSE, srp |-> NullNum]
keyEmpty(k) == k = EmptyKey

----------------------------------------------------------------------------
(* Messages of the client *)

Identifies == {"IDENTIFY_SRP", "IDENTIFY_ANONYMOUS", "IDENTIFY_OTHER"}

ClientHellos ==
    [type : {"ClientHello"}, encryption : 0 .. 3, identify : Identifies,
     iv : {0, 1}, public_key : {"empty", "bad", "good"}]

SrpIdentifies == [type : {"SrpIdentify"}, username : UserNames \cup {""}]

SrpClientKeyExchanges ==
    [type : {"SrpClientKeyExchange"}, a : {NullNum, 2, 7}, iv : {0, 1}]

SessionResponses ==
    [type : {"SessionResponse"}, session_type : Masks, version : {1}]

Garbage == [type : {"garbage"}]

\* The buffers a state may receive: every message of the type the state
\* reads, and buffers that are not of that type (a message the client sends
\* out of turn, or bytes that are no message).
Expected(st) ==
    CASE st = "READ_CLIENT_HELLO" -> ClientHellos
      [] st = "READ_IDENTIFY" -> SrpIdentifies
      [] st = "READ_CLIENT_KEY_EXCHANGE" -> SrpClientKeyExchanges
      [] st = "READ_SESSION_RESPONSE" -> SessionResponses
      [] OTHER -> {}

Buffers(st) == Expected(st) \cup SrpIdentifies \cup SessionResponses \cup Garbage

\* parse(buffer, &message): the buffer holds a message of the expected type
parse(buffer, type) == buffer.type = type

----------------------------------------------------------------------------
(* The transfer as constructed *)

ErrorTypes == {"QUEUE", "CREATE_DIRECTORY", "CREATE_FILE", "OPEN_FILE",
               "ALREADY_EXISTS", "WRITE_FILE", "READ_FILE", "OTHER"}

NoFile == 0 - 1

\* What an event is recorded with before its handler runs.
NoEvent == [op |-> "constructor", kind |-> "", code |-> "", action |-> "",
            last_packet |-> FALSE, front |-> FALSE, asked |-> FALSE,
            notified |-> FALSE, finished |-> FALSE, handler |-> ""]

FileTransferInit ==
    /\ type_ \in {"DOWNLOADER", "UPLOADER"}
    /\ request_factory_source_ = "null"
    /\ request_factory_target_ = "null"
    /\ finish_callback_ = FALSE
    /\ queue_builder_ = "null"
    /\ tasks_ = <<>>
    /\ total_size_ = 0
    /\ is_canceled_ = FALSE
    /\ cancel_timer_ = FALSE
    /\ actions_ = [t \in ErrorTypes |-> "NONE"]
    /\ task_percentage_ = 0
    /\ total_percentage_ = 0
    /\ task_transfered_size_ = 0
    /\ total_transfered_size_ = 0
    /\ requests = <<>>
    /\ source_file = NoFile
    /\ prompt = <<>>
    /\ calls = <<>>
    /\ progress = <<>>
    /\ packet_requests = 0
    /\ ft_last = NoEvent

----------------------------------------------------------------------------
(* The initial state: a constructed authenticator, start() not yet called *)

Called(op, ret) == last' = [op |-> op, ret |-> ret, at |-> internal_state_]

ServerAuthenticatorInit ==
    /\ state_ = "STOPPED"
    /\ internal_state_ = "READ_CLIENT_HELLO"
    /\ channel_ = "null"
    /\ key_pair_ = "invalid"
    /\ encrypt_iv_ = 0
    /\ decrypt_iv_ = 0
    /\ anonymous_access_ = "DISABLE"
    /\ session_types_ = 0
    /\ session_type_ = 0
    /\ identify_ = "IDENTIFY_SRP"
    /\ encryption_ = 0
    /\ session_key_ = EmptyKey
    /\ user_name_ = ""
    /\ srp_ = NoSrp
    /\ peer_version_ = 0
    /\ timer_active = FALSE
    /\ listener = FALSE
    /\ paused = TRUE
    /\ chan_alive = FALSE
    /\ cipher = <<>>
    /\ sent = <<>>
    /\ written = 0
    /\ on_complete = 0
    /\ hasAesNi \in BOOLEAN
    /\ hello = <<>>
    /\ response = <<>>
    /\ taken = 0
    /\ ever = [armed |-> FALSE, attached |-> FALSE, resumed |-> FALSE]
    /\ last = [op |-> "constructor", ret |-> TRUE, at |-> "READ_CLIENT_HELLO"]

\* The transfer that stays as constructed while the authenticator runs.
TransferIdle == FileTransferInit /\ type_ = "DOWNLOADER"

Init == ServerAuthenticatorInit /\ TransferIdle

----------------------------------------------------------------------------
(* onFailed, called with the channel_ the caller holds at that moment *)

\* onFailed without its first two lines: a repeated call notifies again.
onFailedNoGuard(ch) ==
    /\ timer_active' = FALSE
    /\ listener' = FALSE
    /\ channel_' = "null"
    /\ chan_alive' = FALSE
    /\ state_' = "FAILED"
    /\ on_complete' = on_complete + 1

onFailed(ch) ==
    IF ch = "null"
    THEN UNCHANGED failv
    ELSE /\ timer_active' = FALSE
         /\ listener' = FALSE
         /\ channel_' = "null"
         /\ chan_alive' = FALSE
         /\ state_' = "FAILED"
         /\ on_complete' = on_complete + 1

----------------------------------------------------------------------------
(* The public calls *)

\* startRejects without the checks of the key pair.
startRejectsNoKey ==
    \/ anonymous_access_ = "ENABLE" /\ session_types_ = 0
    \/ anonymous_access_ # "ENABLE" /\ session_types_ # 0

\* The configuration checks of start(): TRUE when one of them calls onFailed.
startRejects ==
    \/ anonymous_access_ = "ENABLE" /\ key_pair_ # "valid"
    \/ anonymous_access_ = "ENABLE" /\ session_types_ = 0
    \/ anonymous_access_ # "ENABLE" /\ session_types_ # 0

\* startPending without timer_.start().
startPendingNoTimer ==
    /\ timer_active' = FALSE
    /\ listener' = TRUE
    /\ paused' = FALSE
    /\ ever' = [armed |-> FALSE, attached |-> TRUE, resumed |-> TRUE]

\* Lines 107-112: the timer is armed, the listener attached, the channel
\* resumed.
startPending ==
    /\ timer_active' = TRUE
    /\ listener' = TRUE
    /\ paused' = FALSE
    /\ ever' = [armed |-> TRUE, attached |-> TRUE, resumed |-> TRUE]

start ==
    /\ Called("start", TRUE)
    /\ IF state_ # "STOPPED"
       THEN UNCHANGED <<failv, paused, ever>>
       ELSE IF startRejects
            THEN \* state_ = PENDING, then onFailed on the channel just stored
                 /\ onFailed("held")
                 /\ UNCHANGED <<paused, ever>>
            ELSE /\ state_' = "PENDING"
                 /\ channel_' = "held"
                 /\ chan_alive' = TRUE
                 /\ startPending
                 /\ UNCHANGED on_complete
    /\ UNCHANGED <<internal_state_, configv, decrypt_iv_, session_type_,
                   identify_, encryption_, session_key_, user_name_, srp_,
                   peer_version_, cipher, sent, written, hasAesNi, hello,
                   response, taken>>

\* private_key: "empty", "invalid" (KeyPair::fromPrivateKey fails) or "valid";
\* iv: what Random::byteArray(kIvSize) returns.
setPrivateKey(private_key, iv) ==
    LET early  == state_ # "STOPPED" \/ private_key = "empty"
        loaded == IF private_key = "valid" THEN "valid" ELSE "invalid"
        ret    == ~early /\ loaded = "valid" /\ iv # 0
    IN /\ Called("setPrivateKey", ret)
       /\ key_pair_' = IF early THEN key_pair_ ELSE loaded
       /\ encrypt_iv_' = IF early \/ loaded # "valid" THEN encrypt_iv_ ELSE iv
       /\ UNCHANGED <<failv, paused, internal_state_, anonymous_access_,
                      session_types_, decrypt_iv_, session_type_, identify_,
                      encryption_, session_key_, user_name_, srp_,
                      peer_version_, cipher, sent, written, hasAesNi, hello,
                      response, taken, ever>>

\* setAnonymousAccess without the check of state_.
setAnonymousAccessNoGuard(anonymous_access, session_types) ==
    LET refused == /\ anonymous_access = "ENABLE"
                   /\ (key_pair_ # "valid" \/ session_types = 0)
    IN /\ Called("setAnonymousAccess", ~refused)
       /\ session_types_' =
              IF refused THEN session_types_
              ELSE IF anonymous_access = "ENABLE" THEN session_types ELSE 0
       /\ anonymous_access_' =
              IF refused THEN anonymous_access_ ELSE anonymous_access
       /\ UNCHANGED <<failv, paused, internal_state_, key_pair_, encrypt_iv_,
                      decrypt_iv_, session_type_, identify_, encryption_,
                      session_key_, user_name_, srp_, peer_version_, cipher,
                      sent, written, hasAesNi, hello, response, taken, ever>>

setAnonymousAccess(anonymous_access, session_types) ==
    LET refused == \/ state_ # "STOPPED"
                   \/ /\ anonymous_access = "ENABLE"
                      /\ (key_pair_ # "valid" \/ session_types = 0)
    IN /\ Called("setAnonymousAccess", ~refused)
       /\ session_types_' =
              IF refused THEN session_types_
              ELSE IF anonymous_access = "ENABLE" THEN session_types ELSE 0
       /\ anonymous_access_' =
              IF refused THEN anonymous_access_ ELSE anonymous_access
       /\ UNCHANGED <<failv, paused, internal_state_, key_pair_, encrypt_iv_,
                      decrypt_iv_, session_type_, identify_, encryption_,
                      session_key_, user_name_, srp_, peer_version_, cipher,
                      sent, written, hasAesNi, hello, response, taken, ever>>

\* takeChannel without the check of state_.
takeChannelNoGuard ==
    LET moved == channel_ = "held"
    IN /\ Called("takeChannel", moved)
       /\ channel_' = "null"
       /\ taken' = IF moved THEN taken + 1 ELSE taken
       /\ UNCHANGED <<state_, timer_active, listener, chan_alive, on_complete,
                      paused, internal_state_, configv, decrypt_iv_,
                      session_type_, identify_, encryption_, session_key_,
                      user_name_, srp_, peer_version_, cipher, sent, written,
                      hasAesNi, hello, response, ever>>

\* The result is non-null (ret) when the state is SUCCESS and channel_ is held.
takeChannel ==
    LET moved == state_ = "SUCCESS" /\ channel_ = "held"
    IN /\ Called("takeChannel", moved)
       /\ channel_' = IF state_ = "SUCCESS" THEN "null" ELSE channel_
       /\ taken' = IF moved THEN taken + 1 ELSE taken
       /\ UNCHANGED <<state_, timer_active, listener, chan_alive, on_complete,
                      paused, internal_state_, configv, decrypt_iv_,
                      session_type_, identify_, encryption_, session_key_,
                      user_name_, srp_, peer_version_, cipher, sent, written,
                      hasAesNi, hello, response, ever>>

----------------------------------------------------------------------------
(* The channel's cipher *)

\* MessageEncryptorOpenssl / MessageDecryptorOpenssl ::createFor...: the
\* result is non-null when the key and the IV are not empty and OpenSSL
\* accepts them (ok).
created(key, iv, ok) == ok /\ ~keyEmpty(key) /\ iv # 0

\* onSessionKeyChanged() returns true: both objects were created.
onSessionKeyChangedOk(key, eiv, div, ok) ==
    created(key, eiv, ok) /\ created(key, div, ok)

Installed(enc, key, eiv, div) ==
    <<[encryption |-> enc, key |-> key, encrypt_iv |-> eiv, decrypt_iv |-> div]>>

SessionChallenge(types) == [type |-> "SessionChallenge", session_types |-> types]

----------------------------------------------------------------------------
(* onClientHello *)

\* Lines 277-283: no encryption method of the client is supported.
noEncryptionSupported(encryption) ==
    /\ BitAnd(encryption, ENCRYPTION_AES256_GCM) = 0
    /\ BitAnd(encryption, ENCRYPTION_CHACHA20_POLY1305) = 0

\* Lines 285-310: the switch over identify_ calls onFailed.
identifyRejected(identify) ==
    \/ identify = "IDENTIFY_ANONYMOUS" /\ anonymous_access_ = "ENABLE"
    \/ identify \notin {"IDENTIFY_SRP", "IDENTIFY_ANONYMOUS"}

\* selectEncryption without the CPUID::hasAesNi() condition.
selectEncryptionNoCpu(encryption) ==
    IF BitAnd(encryption, ENCRYPTION_AES256_GCM) # 0
    THEN ENCRYPTION_AES256_GCM
    ELSE ENCRYPTION_CHACHA20_POLY1305

\* Lines 348-358: the cipher written into ServerHello.
selectEncryption(encryption) ==
    IF BitAnd(encryption, ENCRYPTION_AES256_GCM) # 0 /\ hasAesNi
    THEN ENCRYPTION_AES256_GCM
    ELSE ENCRYPTION_CHACHA20_POLY1305

onClientHello(buffer) ==
    IF ~parse(buffer, "ClientHello")
    THEN /\ onFailed(channel_)
         /\ UNCHANGED <<identify_, decrypt_iv_, session_key_, internal_state_,
                        encryption_, sent, hello>>
    ELSE LET stage1   == ~noEncryptionSupported(buffer.encryption)
             stage2   == stage1 /\ ~identifyRejected(buffer.identify)
             keyed    == stage2 /\ key_pair_ = "valid"
             \* empty IV, empty public key, or KeyPair::sessionKey fails
             keyFails == keyed /\ (buffer.iv = 0 \/ buffer.public_key # "good")
             accepted == stage2 /\ ~keyFails
         IN /\ hello' = <<buffer>>
            /\ identify_' = IF stage1 THEN buffer.identify ELSE identify_
            /\ decrypt_iv_' = IF keyed THEN buffer.iv ELSE decrypt_iv_
            /\ session_key_' = IF keyed /\ ~keyFails
                               THEN [ka |-> TRUE, srp |-> NullNum]
                               ELSE session_key_
            /\ IF accepted
               THEN /\ internal_state_' = "SEND_SERVER_HELLO"
                    /\ encryption_' = selectEncryption(buffer.encryption)
                    /\ sent' = Append(sent,
                           [type |-> "ServerHello",
                            encryption |-> selectEncryption(buffer.encryption),
                            iv |-> IF keyed THEN encrypt_iv_ ELSE 0])
                    /\ UNCHANGED failv
               ELSE /\ onFailed(channel_)
                    /\ UNCHANGED <<internal_state_, encryption_, sent>>

----------------------------------------------------------------------------
(* onIdentify *)

\* identified without line 405: the decoy keeps the session types that
\* were there before.
identifiedKeepsSessions(name) ==
    LET found == userIsValid(name) /\ UserList[name].enabled
        Ng    == IF found THEN pairByGroup(UserList[name].group) ELSE <<>>
    IN IF Ng # <<>>
       THEN [sessions |-> UserList[name].sessions,
             N |-> Ng[1].N, g |-> Ng[1].g,
             s |-> UserList[name].salt, v |-> UserList[name].verifier]
       ELSE [sessions |-> IF found THEN UserList[name].sessions
                          ELSE session_types_,
             N |-> kSrpNgPair_8192.N, g |-> kSrpNgPair_8192.g,
             s |-> DecoySalt(name),
             v |-> calc_v(name, DecoySalt(name), kSrpNgPair_8192.N,
                          kSrpNgPair_8192.g)]

\* onIdentify without line 388: a user that is found keeps the session
\* types that setAnonymousAccess left in session_types_.
identifiedAnonymousSessions(name) ==
    LET found == userIsValid(name) /\ UserList[name].enabled
        Ng    == IF found THEN pairByGroup(UserList[name].group) ELSE <<>>
    IN IF Ng # <<>>
       THEN [sessions |-> session_types_,
             N |-> Ng[1].N, g |-> Ng[1].g,
             s |-> UserList[name].salt, v |-> UserList[name].verifier]
       ELSE [sessions |-> 0,
             N |-> kSrpNgPair_8192.N, g |-> kSrpNgPair_8192.g,
             s |-> DecoySalt(name),
             v |-> calc_v(name, DecoySalt(name), kSrpNgPair_8192.N,
                          kSrpNgPair_8192.g)]

\* Lines 383-416: the user's SRP numbers, or the decoy's.
identified(name) ==
    LET found == userIsValid(name) /\ UserList[name].enabled
        Ng    == IF found THEN pairByGroup(UserList[name].group) ELSE <<>>
    IN IF Ng # <<>>
       THEN [sessions |-> UserList[name].sessions,
             N |-> Ng[1].N, g |-> Ng[1].g,
             s |-> UserList[name].salt, v |-> UserList[name].verifier]
       ELSE [sessions |-> 0,
             N |-> kSrpNgPair_8192.N, g |-> kSrpNgPair_8192.g,
             s |-> DecoySalt(name),
             v |-> calc_v(name, DecoySalt(name), kSrpNgPair_8192.N,
                          kSrpNgPair_8192.g)]

onIdentify(buffer) ==
    IF ~parse(buffer, "SrpIdentify")
    THEN /\ onFailed(channel_)
         /\ UNCHANGED <<user_name_, session_types_, srp_, internal_state_,
                        encrypt_iv_, sent>>
    ELSE /\ user_name_' = buffer.username
         /\ IF buffer.username = ""
            THEN /\ onFailed(channel_)
                 /\ UNCHANGED <<session_types_, srp_, internal_state_,
                                encrypt_iv_, sent>>
            ELSE \* b and iv: what Random::byteArray(128) and (kIvSize) return
                 \E b \in 1 .. MaxB, iv \in 0 .. MaxIv :
                 LET u == identified(buffer.username)
                     B == calc_B(b, u.N, u.g, u.v)
                 IN /\ session_types_' = u.sessions
                    /\ srp_' = [N |-> u.N, g |-> u.g, s |-> u.s, v |-> u.v,
                                b |-> b, B |-> B, A |-> srp_.A]
                    /\ IF ~isValid(u.N) \/ ~isValid(u.g) \/ ~isValid(u.s)
                          \/ ~isValid(B)
                       THEN /\ onFailed(channel_)
                            /\ UNCHANGED <<internal_state_, encrypt_iv_, sent>>
                       ELSE /\ internal_state_' = "SEND_SERVER_KEY_EXCHANGE"
                            /\ encrypt_iv_' = iv
                            /\ sent' = Append(sent,
                                   [type |-> "SrpServerKeyExchange",
                                    number |-> u.N, generator |-> u.g,
                                    salt |-> u.s, b |-> B, iv |-> iv])
                            /\ UNCHANGED failv

----------------------------------------------------------------------------
(* onClientKeyExchange *)

\* createSrpKey without the test of lines 608-612.
createSrpKeyNoVerify(A) ==
    calcServerKey(A, srp_.v, calc_u(A, srp_.B, srp_.N), srp_.b, srp_.N)

\* createSrpKey(): the SRP key, NullNum standing for the empty byte array.
createSrpKey(A) ==
    IF ~verify_A_mod_N(A, srp_.N)
    THEN NullNum
    ELSE calcServerKey(A, srp_.v, calc_u(A, srp_.B, srp_.N), srp_.b, srp_.N)

onClientKeyExchange(buffer) ==
    IF ~parse(buffer, "SrpClientKeyExchange")
    THEN /\ onFailed(channel_)
         /\ UNCHANGED <<srp_, decrypt_iv_, session_key_, cipher,
                        internal_state_, sent>>
    ELSE \* ok: OpenSSL accepts the key and the IVs
         \E ok \in BOOLEAN :
         LET srp_key == createSrpKey(buffer.a)
             early   == \/ ~isValid(buffer.a) \/ buffer.iv = 0
                        \/ srp_key = NullNum
                        \/ encryption_ \notin {ENCRYPTION_AES256_GCM,
                                               ENCRYPTION_CHACHA20_POLY1305}
             key     == [ka |-> session_key_.ka, srp |-> srp_key]
             changed == onSessionKeyChangedOk(key, encrypt_iv_, buffer.iv, ok)
         IN /\ srp_' = [srp_ EXCEPT !.A = buffer.a]
            /\ decrypt_iv_' = buffer.iv
            /\ session_key_' = IF early THEN session_key_ ELSE key
            /\ IF early \/ ~changed
               THEN /\ onFailed(channel_)
                    /\ UNCHANGED <<cipher, internal_state_, sent>>
               ELSE /\ cipher' = Installed(encryption_, key, encrypt_iv_,
                                           buffer.iv)
                    /\ internal_state_' = "SEND_SESSION_CHALLENGE"
                    /\ sent' = Append(sent, SessionChallenge(session_types_))
                    /\ UNCHANGED failv

----------------------------------------------------------------------------
(* onSessionResponse *)

\* singleSessionType testing count() != 0 instead of count() != 1.
singleSessionTypeAny(session_type) == BitCount(session_type) >= 1

\* Lines 526-531: exactly one bit of the selected session type is set.
singleSessionType(session_type) == BitCount(session_type) = 1

\* Lines 526-538: the checks on the selected session type both pass.
sessionTypeAccepted(session_type) ==
    /\ singleSessionType(session_type)
    /\ BitAnd(session_types_, session_type) # 0

\* onSessionResponse without channel_->pause().
onSessionResponseNoPause(buffer) ==
    /\ paused' = paused
    /\ IF ~parse(buffer, "SessionResponse")
       THEN /\ onFailed(channel_)
            /\ UNCHANGED <<peer_version_, session_type_, response>>
       ELSE /\ response' = <<buffer>>
            /\ peer_version_' = buffer.version
            /\ session_type_' = IF singleSessionType(buffer.session_type)
                                THEN buffer.session_type ELSE session_type_
            /\ IF sessionTypeAccepted(buffer.session_type)
               THEN /\ timer_active' = FALSE
                    /\ listener' = FALSE
                    /\ state_' = "SUCCESS"
                    /\ on_complete' = on_complete + 1
                    /\ UNCHANGED <<channel_, chan_alive>>
               ELSE onFailed(channel_)

onSessionResponse(buffer) ==
    /\ paused' = TRUE
    /\ IF ~parse(buffer, "SessionResponse")
       THEN /\ onFailed(channel_)
            /\ UNCHANGED <<peer_version_, session_type_, response>>
       ELSE /\ response' = <<buffer>>
            /\ peer_version_' = buffer.version
            /\ session_type_' = IF singleSessionType(buffer.session_type)
                                THEN buffer.session_type ELSE session_type_
            /\ IF sessionTypeAccepted(buffer.session_type)
               THEN /\ timer_active' = FALSE
                    /\ listener' = FALSE
                    /\ state_' = "SUCCESS"
                    /\ on_complete' = on_complete + 1
                    /\ UNCHANGED <<channel_, chan_alive>>
               ELSE onFailed(channel_)

----------------------------------------------------------------------------
(* The listener callbacks and the timer *)

onMessageReceived ==
    /\ listener /\ chan_alive /\ ~paused
    /\ Called("onMessageReceived", TRUE)
    /\ \E buffer \in Buffers(internal_state_) :
         CASE internal_state_ = "READ_CLIENT_HELLO" ->
                /\ onClientHello(buffer)
                /\ UNCHANGED <<paused, encrypt_iv_, session_types_,
                               session_type_, user_name_, srp_, peer_version_,
                               cipher, response>>
           [] internal_state_ = "READ_IDENTIFY" ->
                /\ onIdentify(buffer)
                /\ UNCHANGED <<paused, decrypt_iv_, session_type_, identify_,
                               encryption_, session_key_, peer_version_,
                               cipher, hello, response>>
           [] internal_state_ = "READ_CLIENT_KEY_EXCHANGE" ->
                /\ onClientKeyExchange(buffer)
                /\ UNCHANGED <<paused, encrypt_iv_, session_types_,
                               session_type_, identify_, encryption_,
                               user_name_, peer_version_, hello, response>>
           [] internal_state_ = "READ_SESSION_RESPONSE" ->
                /\ onSessionResponse(buffer)
                /\ UNCHANGED <<internal_state_, encrypt_iv_, decrypt_iv_,
                               session_types_, identify_, encryption_,
                               session_key_, user_name_, srp_, cipher, sent,
                               hello>>
           [] OTHER ->
                \* default: NOTREACHED(); break;
                UNCHANGED <<failv, paused, internal_state_, encrypt_iv_,
                            decrypt_iv_, session_types_, session_type_,
                            identify_, encryption_, session_key_, user_name_,
                            srp_, peer_version_, cipher, sent, hello,
                            response>>
    /\ UNCHANGED <<key_pair_, anonymous_access_, written, hasAesNi, taken,
                   ever>>

\* The write of the oldest unwritten message completed.
onMessageWritten ==
    /\ listener /\ chan_alive
    /\ written < Len(sent)
    /\ Len(sent) < MaxSent
    /\ Called("onMessageWritten", TRUE)
    /\ written' = written + 1
    /\ CASE internal_state_ = "SEND_SERVER_HELLO" ->
              \E ok \in BOOLEAN :
                IF ~keyEmpty(session_key_)
                   /\ ~onSessionKeyChangedOk(session_key_, encrypt_iv_,
                                             decrypt_iv_, ok)
                THEN /\ onFailed(channel_)
                     /\ UNCHANGED <<cipher, internal_state_, sent>>
                ELSE /\ cipher' = IF keyEmpty(session_key_) THEN cipher
                                  ELSE Installed(encryption_, session_key_,
                                                 encrypt_iv_, decrypt_iv_)
                     /\ internal_state_' =
                            IF identify_ = "IDENTIFY_SRP"
                            THEN "READ_IDENTIFY" ELSE internal_state_
                     \* IDENTIFY_ANONYMOUS: doSessionChallenge()
                     /\ sent' = IF identify_ = "IDENTIFY_ANONYMOUS"
                                THEN Append(sent,
                                            SessionChallenge(session_types_))
                                ELSE sent
                     /\ UNCHANGED failv
         [] internal_state_ = "SEND_SERVER_KEY_EXCHANGE" ->
              /\ internal_state_' = "READ_CLIENT_KEY_EXCHANGE"
              /\ UNCHANGED <<failv, cipher, sent>>
         [] internal_state_ = "SEND_SESSION_CHALLENGE" ->
              /\ internal_state_' = "READ_SESSION_RESPONSE"
              /\ UNCHANGED <<failv, cipher, sent>>
         [] OTHER ->
              \* default: NOTREACHED(); break;
              UNCHANGED <<failv, cipher, internal_state_, sent>>
    /\ UNCHANGED <<paused, configv, decrypt_iv_, session_type_, identify_,
                   encryption_, session_key_, user_name_, srp_, peer_version_,
                   hasAesNi, hello, response, taken, ever>>

onlyFailv == <<paused, internal_state_, configv, decrypt_iv_, session_type_,
               identify_, encryption_, session_key_, user_name_, srp_,
               peer_version_, cipher, sent, written, hasAesNi, hello,
               response, taken, ever>>

onDisconnected ==
    /\ listener /\ chan_alive
    /\ Called("onDisconnected", TRUE)
    /\ onFailed(channel_)
    /\ UNCHANGED onlyFailv

\* The callback given to timer_.start() runs: kTimeout has passed.
onTimeout ==
    /\ timer_active
    /\ Called("onTimeout", TRUE)
    /\ onFailed(channel_)
    /\ UNCHANGED onlyFailv

\* A repeated failure notification, after the channel was destroyed.
onFailedAgain ==
    /\ state_ = "FAILED"
    /\ Called("onFailed", TRUE)
    /\ onFailed(channel_)
    /\ UNCHANGED onlyFailv

----------------------------------------------------------------------------
Next ==
    \/ start /\ UNCHANGED ftvars
    \/ \E private_key \in {"empty", "invalid", "valid"}, iv \in 0 .. MaxIv :
           setPrivateKey(private_key, iv) /\ UNCHANGED ftvars
    \/ \E anonymous_access \in {"ENABLE", "DISABLE"}, session_types \in Masks :
           setAnonymousAccess(anonymous_access, session_types)
              /\ UNCHANGED ftvars
    \/ takeChannel /\ UNCHANGED ftvars
    \/ onMessageReceived /\ UNCHANGED ftvars
    \/ onMessageWritten /\ UNCHANGED ftvars
    \/ onDisconnected /\ UNCHANGED ftvars
    \/ onTimeout /\ UNCHANGED ftvars
    \/ onFailedAgain /\ UNCHANGED ftvars

Spec == Init /\ [][Next]_<<vars, ftvars>>

\* The task runner runs the timer's callback once kTimeout has passed.
SpecLive == Spec /\ WF_vars(onTimeout)

----------------------------------------------------------------------------
(* client::FileTransfer: its state as one record, so that a handler is a   *)
(* function of the state and a call of one handler by another is the       *)
(* composition of the two                                                  *)

FT(op) ==
    [type_ |-> type_,
     request_factory_source_ |-> request_factory_source_,
     request_factory_target_ |-> request_factory_target_,
     finish_callback_ |-> finish_callback_,
     queue_builder_ |-> queue_builder_,
     tasks_ |-> tasks_,
     total_size_ |-> total_size_,
     is_canceled_ |-> is_canceled_,
     cancel_timer_ |-> cancel_timer_,
     actions_ |-> actions_,
     task_percentage_ |-> task_percentage_,
     total_percentage_ |-> total_percentage_,
     task_transfered_size_ |-> task_transfered_size_,
     total_transfered_size_ |-> total_transfered_size_,
     requests |-> requests,
     source_file |-> source_file,
     prompt |-> prompt,
     calls |-> calls,
     progress |-> progress,
     packet_requests |-> packet_requests,
     ev |-> [NoEvent EXCEPT !.op = op]]

\* The state after the handler: s is what the handler made of FT(op).
Apply(s) ==
    /\ type_' = s.type_
    /\ request_factory_source_' = s.request_factory_source_
    /\ request_factory_target_' = s.request_factory_target_
    /\ finish_callback_' = s.finish_callback_
    /\ queue_builder_' = s.queue_builder_
    /\ tasks_' = s.tasks_
    /\ total_size_' = s.total_size_
    /\ is_canceled_' = s.is_canceled_
    /\ cancel_timer_' = s.cancel_timer_
    /\ actions_' = s.actions_
    /\ task_percentage_' = s.task_percentage_
    /\ total_percentage_' = s.total_percentage_
    /\ task_transfered_size_' = s.task_transfered_size_
    /\ total_transfered_size_' = s.total_transfered_size_
    /\ requests' = s.requests
    /\ source_file' = s.source_file
    /\ prompt' = s.prompt
    /\ calls' = s.calls
    /\ progress' = s.progress
    /\ packet_requests' = s.packet_requests
    /\ ft_last' = s.ev

----------------------------------------------------------------------------
(* The table of actions *)

\* kActions[i].available_actions of the row of the type; 0 (no action) for a
\* type that has no row.
availableActions(type) ==
    CASE type \in {"CREATE_DIRECTORY", "CREATE_FILE", "OPEN_FILE", "WRITE_FILE",
                   "READ_FILE"} ->
             {"ACTION_ABORT", "ACTION_SKIP", "ACTION_SKIP_ALL"}
      [] type = "ALREADY_EXISTS" ->
             {"ACTION_ABORT", "ACTION_SKIP", "ACTION_SKIP_ALL",
              "ACTION_REPLACE", "ACTION_REPLACE_ALL"}
      [] type = "OTHER" -> {"ACTION_ABORT"}
      [] OTHER -> {}

\* kActions[i].default_action of the row of the type; ACTION_ABORT for a type
\* that has no row.
defaultAction(type) ==
    IF type \in {"CREATE_DIRECTORY", "CREATE_FILE", "OPEN_FILE",
                 "ALREADY_EXISTS", "WRITE_FILE", "READ_FILE", "OTHER"}
    THEN "ACTION_ASK"
    ELSE "ACTION_ABORT"

\* The answers the window gives to errorOccurred(error): the button of an
\* available action, or ACTION_ABORT for any other way the box is closed.
Answers(type) == availableActions(type) \cup {"ACTION_ABORT"}

----------------------------------------------------------------------------
(* Tasks, requests and replies *)

\* proto::FileError: success, the code targetReply tells apart, and another.
FileErrors == {"FILE_ERROR_SUCCESS", "FILE_ERROR_PATH_ALREADY_EXISTS",
               "FILE_ERROR_ACCESS_DENIED"}

\* The codes an endpoint replies with: only the creation of a directory or of
\* a file finds that the path exists already.
ReplyCodes(request) ==
    IF request.kind \in {"create_directory", "upload"}
    THEN FileErrors
    ELSE FileErrors \ {"FILE_ERROR_PATH_ALREADY_EXISTS"}

\* The sizes of the files: empty, one full packet, and the largest, which is
\* more than one packet and not a whole number of packets.
FileSizes == {0, kMaxFilePacketSize, MaxFileSize}

\* What the queue builder found of an item: a directory, or a file of a size.
Items ==
    {[is_directory |-> TRUE, size |-> 0]}
       \cup {[is_directory |-> FALSE, size |-> n] : n \in FileSizes}

ItemLists == UNION {[1 .. n -> Items] : n \in 0 .. MaxTasks}

\* FileTransferQueueBuilder::takeQueue: one task per item, in order.
takeQueue(items) ==
    [i \in 1 .. Len(items) |->
        [id |-> i, is_directory |-> items[i].is_directory,
         size |-> items[i].size, overwrite |-> FALSE]]

\* FileTransferQueueBuilder::totalSize: the sum of the sizes of the files.
RECURSIVE totalSize(_)
totalSize(items) ==
    IF items = <<>> THEN 0
    ELSE items[1].size + totalSize(Tail(items))

\* A file request: the endpoint it goes to, which member of the oneof it
\* holds, the task its path names and the size of the file at that path, the
\* overwrite flag (upload), CANCEL (packet request) and LAST_PACKET (packet).
Request(target, kind, task, overwrite, cancel, last_packet) ==
    [target |-> target, kind |-> kind, path |-> task.id,
     file_size |-> task.size, overwrite |-> overwrite, cancel |-> cancel,
     last_packet |-> last_packet]

NoTask == [id |-> 0, size |-> 0]

Min(a, b) == IF a < b THEN a ELSE b

\* The source endpoint serves a request: the file it has open afterwards.
served(request, code, open) ==
    IF code # "FILE_ERROR_SUCCESS" THEN open
    ELSE CASE request.kind = "download" -> request.file_size
           [] request.kind = "packet_request" ->
                  IF request.cancel \/ open <= kMaxFilePacketSize
                  THEN NoFile
                  ELSE open - kMaxFilePacketSize
           [] OTHER -> open

\* The packet of the reply to a packet request: its LAST_PACKET flag is set
\* when the file is read to its end, or when the request carried CANCEL.
packetOf(request, open) ==
    [last_packet |-> request.cancel \/ open <= kMaxFilePacketSize]

----------------------------------------------------------------------------
(* The handlers of FileTransfer *)

\* onFinished that calls a copy of finish_callback_ and leaves it set.
onFinishedNoSwap(s) ==
    IF s.finish_callback_
    THEN [s EXCEPT !.calls = @ \o <<"window.stop", "finish_callback">>,
                   !.ev.finished = TRUE]
    ELSE s

onFinished(s) ==
    IF s.finish_callback_
    THEN [s EXCEPT !.finish_callback_ = FALSE,
                   !.calls = @ \o <<"window.stop", "finish_callback">>,
                   !.ev.finished = TRUE]
    ELSE s

\* request_consumer_proxy_->doRequest(request)
doRequest(s, request) == [s EXCEPT !.requests = Append(@, request)]

\* doFrontTask without lines 380-381.
doFrontTaskNoReset(s, overwrite) ==
    LET s1 == [s EXCEPT !.tasks_[1].overwrite = overwrite,
                        !.packet_requests = 0,
                        !.ev.front = TRUE]
        front_task == s1.tasks_[1]
    IN IF front_task.is_directory
       THEN doRequest(s1, Request(s.request_factory_target_,
                                  "create_directory", front_task, FALSE,
                                  FALSE, FALSE))
       ELSE doRequest(s1, Request(s.request_factory_source_, "download",
                                  front_task, FALSE, FALSE, FALSE))

doFrontTask(s, overwrite) ==
    LET s1 == [s EXCEPT !.task_percentage_ = 0,
                        !.task_transfered_size_ = 0,
                        !.tasks_[1].overwrite = overwrite,
                        !.packet_requests = 0,
                        !.ev.front = TRUE]
        front_task == s1.tasks_[1]
    IN IF front_task.is_directory
       THEN doRequest(s1, Request(s.request_factory_target_,
                                  "create_directory", front_task, FALSE,
                                  FALSE, FALSE))
       ELSE doRequest(s1, Request(s.request_factory_source_, "download",
                                  front_task, FALSE, FALSE, FALSE))

\* doNextTask whose loop at lines 404-405 runs whether or not is_canceled_.
doNextTaskClears(s) ==
    LET s1 == [s EXCEPT !.tasks_ = <<>>]
    IN onFinished([s1 EXCEPT !.cancel_timer_ = FALSE])

\* doNextTask without the test of is_canceled_ (lines 402-406): after
\* stop() the next task of the queue is started all the same.
doNextTaskIgnoresCancel(s) ==
    LET popped == IF s.tasks_ # <<>> THEN Tail(s.tasks_) ELSE s.tasks_
        s1     == [s EXCEPT !.tasks_ = popped]
    IN IF popped = <<>>
       THEN onFinished([s1 EXCEPT !.cancel_timer_ = FALSE])
       ELSE doFrontTask(s1, FALSE)

doNextTask(s) ==
    LET canceled == IF s.is_canceled_ THEN <<>> ELSE s.tasks_
        popped   == IF canceled # <<>> THEN Tail(canceled) ELSE canceled
        s1       == [s EXCEPT !.tasks_ = popped]
    IN IF popped = <<>>
       THEN onFinished([s1 EXCEPT !.cancel_timer_ = FALSE])
       ELSE doFrontTask(s1, FALSE)

setActionForErrorType(s, error_type, action) ==
    [s EXCEPT !.actions_[error_type] = action]

\* setAction whose line 358 is doFrontTask(false).
setActionNoOverwrite(s, error_type, action) ==
    CASE action = "ACTION_ABORT" -> onFinished(s)
      [] action = "ACTION_REPLACE" -> doFrontTask(s, FALSE)
      [] action = "ACTION_REPLACE_ALL" ->
             doFrontTask(setActionForErrorType(s, error_type, action), FALSE)
      [] action = "ACTION_SKIP" -> doNextTask(s)
      [] action = "ACTION_SKIP_ALL" ->
             doNextTask(setActionForErrorType(s, error_type, action))
      [] OTHER -> s

setAction(s, error_type, action) ==
    CASE action = "ACTION_ABORT" -> onFinished(s)
      [] action = "ACTION_REPLACE" -> doFrontTask(s, TRUE)
      [] action = "ACTION_REPLACE_ALL" ->
             doFrontTask(setActionForErrorType(s, error_type, action), TRUE)
      [] action = "ACTION_SKIP" -> doNextTask(s)
      [] action = "ACTION_SKIP_ALL" ->
             doNextTask(setActionForErrorType(s, error_type, action))
      [] OTHER -> s   \* default: NOTREACHED(); break;

\* onError without lines 428-433: the window is asked whatever is stored.
onErrorAlwaysAsks(s, type, code) ==
    [s EXCEPT !.prompt = Append(@, [type |-> type, code |-> code]),
              !.ev.asked = TRUE]

onError(s, type, code) ==
    IF s.actions_[type] # "NONE"
    THEN setAction(s, type, s.actions_[type])
    ELSE \* transfer_window_proxy_->errorOccurred(Error(type, code, path))
         [s EXCEPT !.prompt = Append(@, [type |-> type, code |-> code]),
                   !.ev.asked = TRUE]

\* Lines 264-289: the packet written is counted.
countPacket(s) ==
    LET full_task_size == s.tasks_[1].size
        added          == s.task_transfered_size_ + kMaxFilePacketSize
        over           == added > full_task_size
        packet_size    == IF over THEN added - full_task_size
                          ELSE kMaxFilePacketSize
        task           == IF over THEN full_task_size ELSE added
        total          == s.total_transfered_size_ + packet_size
        task_percentage  == (task * 100) \div full_task_size
        total_percentage == (total * 100) \div s.total_size_
    IN IF full_task_size = 0 \/ s.total_size_ = 0
       THEN s
       ELSE LET s1 == [s EXCEPT !.task_transfered_size_ = task,
                                !.total_transfered_size_ = total]
            IN IF task_percentage # s.task_percentage_
                  \/ total_percentage # s.total_percentage_
               THEN [s1 EXCEPT !.task_percentage_ = task_percentage,
                               !.total_percentage_ = total_percentage,
                               !.progress = <<total_percentage,
                                              task_percentage>>,
                               !.ev.notified = TRUE]
               ELSE s1

\* request_factory_source_->packetRequest(flags)
packetRequest(s, cancel) ==
    Request(s.request_factory_source_, "packet_request", NoTask, FALSE, cancel,
            FALSE)

\* doRequest(request_factory_source_->packetRequest(flags)), counted.
doPacketRequest(s, cancel) ==
    doRequest([s EXCEPT !.packet_requests = @ + 1], packetRequest(s, cancel))

\* targetReply without the return at line 250: after the error of an upload
\* the packet request is issued all the same.
targetReplyNoReturn(s, request, reply) ==
    IF s.tasks_ = <<>> THEN s
    ELSE CASE request.kind = "create_directory" ->
                IF reply.error_code \in {"FILE_ERROR_SUCCESS",
                                         "FILE_ERROR_PATH_ALREADY_EXISTS"}
                THEN doNextTask(s)
                ELSE onError(s, "CREATE_DIRECTORY", reply.error_code)
           [] request.kind = "upload" ->
                LET s1 == IF reply.error_code # "FILE_ERROR_SUCCESS"
                          THEN onError(s,
                                       IF reply.error_code
                                              = "FILE_ERROR_PATH_ALREADY_EXISTS"
                                       THEN "ALREADY_EXISTS" ELSE "CREATE_FILE",
                                       reply.error_code)
                          ELSE s
                IN doPacketRequest(s1, FALSE)
           [] request.kind = "packet" ->
                IF reply.error_code # "FILE_ERROR_SUCCESS"
                THEN onError(s, "WRITE_FILE", reply.error_code)
                ELSE LET s1 == countPacket(s)
                     IN IF request.last_packet
                        THEN doNextTask(s1)
                        ELSE doPacketRequest(s1, s1.is_canceled_)
           [] OTHER -> onError(s, "OTHER", "FILE_ERROR_UNKNOWN")

\* targetReply without lines 291-295: LAST_PACKET is not looked at.
targetReplyIgnoresLast(s, request, reply) ==
    IF s.tasks_ = <<>> THEN s
    ELSE CASE request.kind = "create_directory" ->
                IF reply.error_code \in {"FILE_ERROR_SUCCESS",
                                         "FILE_ERROR_PATH_ALREADY_EXISTS"}
                THEN doNextTask(s)
                ELSE onError(s, "CREATE_DIRECTORY", reply.error_code)
           [] request.kind = "upload" ->
                IF reply.error_code # "FILE_ERROR_SUCCESS"
                THEN onError(s,
                             IF reply.error_code
                                    = "FILE_ERROR_PATH_ALREADY_EXISTS"
                             THEN "ALREADY_EXISTS" ELSE "CREATE_FILE",
                             reply.error_code)
                ELSE doPacketRequest(s, FALSE)
           [] request.kind = "packet" ->
                IF reply.error_code # "FILE_ERROR_SUCCESS"
                THEN onError(s, "WRITE_FILE", reply.error_code)
                ELSE LET s1 == countPacket(s)
                     IN doPacketRequest(s1, s1.is_canceled_)
           [] OTHER -> onError(s, "OTHER", "FILE_ERROR_UNKNOWN")

targetReply(s, request, reply) ==
    IF s.tasks_ = <<>> THEN s
    ELSE CASE request.kind = "create_directory" ->
                IF reply.error_code \in {"FILE_ERROR_SUCCESS",
                                         "FILE_ERROR_PATH_ALREADY_EXISTS"}
                THEN doNextTask(s)
                ELSE onError(s, "CREATE_DIRECTORY", reply.error_code)
           [] request.kind = "upload" ->
                IF reply.error_code # "FILE_ERROR_SUCCESS"
                THEN onError(s,
                             IF reply.error_code
                                    = "FILE_ERROR_PATH_ALREADY_EXISTS"
                             THEN "ALREADY_EXISTS" ELSE "CREATE_FILE",
                             reply.error_code)
                ELSE doPacketRequest(s, FALSE)
           [] request.kind = "packet" ->
                IF reply.error_code # "FILE_ERROR_SUCCESS"
                THEN onError(s, "WRITE_FILE", reply.error_code)
                ELSE LET s1 == countPacket(s)
                     IN IF request.last_packet
                        THEN doNextTask(s1)
                        ELSE doPacketRequest(s1, s1.is_canceled_)
           [] OTHER -> onError(s, "OTHER", "FILE_ERROR_UNKNOWN")

\* sourceReply without its last else branch (lines 338-341): a reply to a
\* request that is neither a download nor a packet request is dropped.
sourceReplyDropsOther(s, request, reply) ==
    IF s.tasks_ = <<>> THEN s
    ELSE CASE request.kind = "download" ->
                IF reply.error_code # "FILE_ERROR_SUCCESS"
                THEN onError(s, "OPEN_FILE", reply.error_code)
                ELSE doRequest(s, Request(s.request_factory_target_, "upload",
                                          s.tasks_[1], s.tasks_[1].overwrite,
                                          FALSE, FALSE))
           [] request.kind = "packet_request" ->
                IF reply.error_code # "FILE_ERROR_SUCCESS"
                THEN onError(s, "READ_FILE", reply.error_code)
                ELSE doRequest(s, Request(s.request_factory_target_, "packet",
                                          NoTask, FALSE, FALSE,
                                          reply.packet.last_packet))
           [] OTHER -> s

\* sourceReply without the return at line 321: after the error of a
\* download the upload request is issued all the same.
sourceReplyNoReturn(s, request, reply) ==
    IF s.tasks_ = <<>> THEN s
    ELSE CASE request.kind = "download" ->
                LET s1 == IF reply.error_code # "FILE_ERROR_SUCCESS"
                          THEN onError(s, "OPEN_FILE", reply.error_code)
                          ELSE s
                IN IF s1.tasks_ = <<>> THEN s1
                   ELSE doRequest(s1, Request(s1.request_factory_target_,
                                              "upload", s1.tasks_[1],
                                              s1.tasks_[1].overwrite, FALSE,
                                              FALSE))
           [] request.kind = "packet_request" ->
                IF reply.error_code # "FILE_ERROR_SUCCESS"
                THEN onError(s, "READ_FILE", reply.error_code)
                ELSE doRequest(s, Request(s.request_factory_target_, "packet",
                                          NoTask, FALSE, FALSE,
                                          reply.packet.last_packet))
           [] OTHER -> onError(s, "OTHER", "FILE_ERROR_UNKNOWN")

sourceReply(s, request, reply) ==
    IF s.tasks_ = <<>> THEN s
    ELSE CASE request.kind = "download" ->
                IF reply.error_code # "FILE_ERROR_SUCCESS"
                THEN onError(s, "OPEN_FILE", reply.error_code)
                ELSE doRequest(s, Request(s.request_factory_target_, "upload",
                                          s.tasks_[1], s.tasks_[1].overwrite,
                                          FALSE, FALSE))
           [] request.kind = "packet_request" ->
                IF reply.error_code # "FILE_ERROR_SUCCESS"
                THEN onError(s, "READ_FILE", reply.error_code)
                ELSE doRequest(s, Request(s.request_factory_target_, "packet",
                                          NoTask, FALSE, FALSE,
                                          reply.packet.last_packet))
           [] OTHER -> onError(s, "OTHER", "FILE_ERROR_UNKNOWN")

\* The handler the reply is given to is recorded with the event.
toTarget(s, request, reply) ==
    targetReply([s EXCEPT !.ev.handler = "targetReply"], request, reply)

toSource(s, request, reply) ==
    sourceReply([s EXCEPT !.ev.handler = "sourceReply"], request, reply)

\* onReply that takes lines 191-200 whatever type_ is.
routedAsDownloader(s, request, reply) ==
    IF request.target = "LOCAL"
    THEN toTarget(s, request, reply)
    ELSE toSource(s, request, reply)

\* Lines 189-216: the reply goes to targetReply or to sourceReply.
routed(s, request, reply) ==
    IF s.type_ = "DOWNLOADER"
    THEN IF request.target = "LOCAL"
         THEN toTarget(s, request, reply)
         ELSE toSource(s, request, reply)
    ELSE IF request.target = "LOCAL"
         THEN toSource(s, request, reply)
         ELSE toTarget(s, request, reply)

Without(seq, i) == SubSeq(seq, 1, i - 1) \o SubSeq(seq, i + 1, Len(seq))

----------------------------------------------------------------------------
(* The steps of a transfer *)

FileTransfer_start ==
    /\ request_factory_source_ = "null"
    /\ Apply([FT("start") EXCEPT
                 !.finish_callback_ = TRUE,
                 !.request_factory_source_ =
                     IF type_ = "DOWNLOADER" THEN "REMOTE" ELSE "LOCAL",
                 !.request_factory_target_ =
                     IF type_ = "DOWNLOADER" THEN "LOCAL" ELSE "REMOTE",
                 !.queue_builder_ = "building"])

\* The callback given to queue_builder_->start() runs (lines 142-164).
queueBuilt(error_code, items) ==
    /\ queue_builder_ = "building"
    /\ LET s == FT("queueBuilt")
           r == IF error_code = "FILE_ERROR_SUCCESS"
                THEN LET s1 == [s EXCEPT !.tasks_ = takeQueue(items),
                                         !.total_size_ = totalSize(items)]
                     IN IF s1.tasks_ = <<>>
                        THEN onFinished(s1)
                        ELSE doFrontTask(s1, FALSE)
                ELSE onError(s, "QUEUE", "FILE_ERROR_UNKNOWN")
       IN Apply([r EXCEPT !.queue_builder_ = "null",
                          !.ev.code = error_code])

\* stop whose else branch sets is_canceled_ and arms no timer.
stopNoTimer ==
    /\ request_factory_source_ # "null"
    /\ LET s == FT("stop")
       IN IF s.queue_builder_ # "null"
          THEN Apply(onFinished([s EXCEPT !.queue_builder_ = "null"]))
          ELSE Apply([s EXCEPT !.is_canceled_ = TRUE])

\* stop without line 171: the builder is left running.
stopKeepsBuilder ==
    /\ request_factory_source_ # "null"
    /\ LET s == FT("stop")
       IN IF s.queue_builder_ # "null"
          THEN Apply(onFinished(s))
          ELSE Apply([s EXCEPT !.is_canceled_ = TRUE, !.cancel_timer_ = TRUE])

stop ==
    /\ request_factory_source_ # "null"
    /\ LET s == FT("stop")
       IN IF s.queue_builder_ # "null"
          THEN Apply(onFinished([s EXCEPT !.queue_builder_ = "null"]))
          ELSE Apply([s EXCEPT !.is_canceled_ = TRUE, !.cancel_timer_ = TRUE])

\* The reply to one of the requests in flight arrives.
replied(i, code) ==
       LET request == requests[i]
           reply   == [error_code |-> code,
                       packet |-> packetOf(request, source_file)]
           s       == [FT("onReply") EXCEPT
                          !.requests = Without(requests, i),
                          !.source_file = served(request, code, source_file),
                          !.ev.kind = request.kind,
                          !.ev.code = code,
                          !.ev.last_packet = request.last_packet]
       IN \* the source cannot read when it has no file open
          /\ (request.kind = "packet_request" /\ source_file = NoFile)
                => code # "FILE_ERROR_SUCCESS"
          /\ Apply(routed(s, request, reply))

onReply ==
    \E i \in DOMAIN requests :
    \E code \in ReplyCodes(requests[i]) : replied(i, code)

\* The window answers an error it was given: transfer_proxy_->setAction.
windowAnswers ==
    \E i \in DOMAIN prompt :
       \E action \in Answers(prompt[i].type) :
          Apply(setAction([FT("setAction") EXCEPT
                              !.prompt = Without(prompt, i),
                              !.ev.kind = prompt[i].type,
                              !.ev.action = action],
                          prompt[i].type, action))

\* The callback given to cancel_timer_.start() runs: 5 seconds have passed.
onCancelTimer ==
    /\ cancel_timer_
    /\ Apply(onFinished([FT("onCancelTimer") EXCEPT !.cancel_timer_ = FALSE]))

NextFT ==
    \/ FileTransfer_start /\ UNCHANGED vars
    \/ \E error_code \in {"FILE_ERROR_SUCCESS", "FILE_ERROR_ACCESS_DENIED"},
          items \in ItemLists :
           queueBuilt(error_code, items) /\ UNCHANGED vars
    \/ stop /\ UNCHANGED vars
    \/ onReply /\ UNCHANGED vars
    \/ windowAnswers /\ UNCHANGED vars
    \/ onCancelTimer /\ UNCHANGED vars

\* The authenticator that stays as constructed while the transfer runs.
AuthenticatorIdle == ServerAuthenticatorInit /\ ~hasAesNi

InitFT == FileTransferInit /\ AuthenticatorIdle

SpecFT == InitFT /\ [][NextFT]_<<vars, ftvars>>

\* A timer that was started and is not stopped runs its callback: the task
\* runner of cancel_timer_ serves it after its 5 seconds.
SpecFTLive == SpecFT /\ WF_ftvars(onCancelTimer)

\* The queue builder reports what it found.
builderReports ==
    \E error_code \in {"FILE_ERROR_SUCCESS", "FILE_ERROR_ACCESS_DENIED"},
       items \in ItemLists : queueBuilt(error_code, items)

\* The transfer with peers and a window that do their part: the builder
\* reports, a request in flight is replied to, an error the window was
\* given is answered, and a timer that was started runs its callback.
SpecFTFair ==
    /\ SpecFT
    /\ WF_ftvars(builderReports)
    /\ WF_ftvars(onReply)
    /\ WF_ftvars(windowAnswers)
    /\ WF_ftvars(onCancelTimer)

\* A queue whose total is more than a hundred packets, so that one packet
\* moves the total by less than one percent.
LargePackets == 200

LargeTasks == 3

LargeFileSize == LargePackets * kMaxFilePacketSize

LargeItemLists ==
    UNION {[1 .. n -> {[is_directory |-> FALSE, size |-> size] :
                          size \in {kMaxFilePacketSize, LargeFileSize}}] :
              n \in 1 .. LargeTasks}

\* Every request is answered with success.
onReplySuccess ==
    \E i \in DOMAIN requests : replied(i, "FILE_ERROR_SUCCESS")

\* The transfers of large queues that meet no error and are not stopped.
NextFTLarge ==
    \/ FileTransfer_start /\ UNCHANGED vars
    \/ \E items \in LargeItemLists :
           queueBuilt("FILE_ERROR_SUCCESS", items) /\ UNCHANGED vars
    \/ onReplySuccess /\ UNCHANGED vars

SpecFTLarge == InitFT /\ [][NextFTLarge]_<<vars, ftvars>>

\* The kinds of request of the protocol: those of the transfer and the file
\* list request of the queue builder.
AllRequestKinds ==
    {"create_directory", "upload", "packet", "download", "packet_request",
     "file_list"}

\* The kinds each handler has a branch for.
handledKinds(handler) ==
    IF handler = "targetReply"
    THEN {"create_directory", "upload", "packet"}
    ELSE {"download", "packet_request"}

\* The handler onReply gives a request of this target to.
handlerOf(type, target) ==
    IF (type = "DOWNLOADER") = (target = "LOCAL")
    THEN "targetReply" ELSE "sourceReply"

\* Error prompts the window can hold open at a time.
MaxPrompts == 1

\* onReply called with a request the transfer has not in flight: of a kind
\* its handler has no branch for, or of any kind while the queue is empty.
onReplyUnexpected ==
    /\ Len(prompt) < MaxPrompts
    /\ \E target \in {"LOCAL", "REMOTE"}, kind \in AllRequestKinds :
          LET code    == "FILE_ERROR_SUCCESS"
              request == Request(target, kind, NoTask, FALSE, FALSE, FALSE)
              reply   == [error_code |-> code,
                          packet |-> [last_packet |-> FALSE]]
          IN /\ \/ kind \notin handledKinds(handlerOf(type_, target))
                \/ tasks_ = <<>>
             /\ Apply(routed([FT("onReply") EXCEPT !.ev.kind = kind,
                                                   !.ev.code = code],
                             request, reply))

NextFTUnexpected ==
    \/ NextFT
    \/ onReplyUnexpected /\ UNCHANGED vars

SpecFTUnexpected == InitFT /\ [][NextFTUnexpected]_<<vars, ftvars>>

----------------------------------------------------------------------------
(* Definitions the properties share *)

Outcomes == {"SUCCESS", "FAILED"}
Setters == {"setPrivateKey", "setAnonymousAccess"}

\* The variables of the program, without the record of the last call.
progv == <<state_, internal_state_, channel_, key_pair_, encrypt_iv_,
           decrypt_iv_, anonymous_access_, session_types_, session_type_,
           identify_, encryption_, session_key_, user_name_, srp_,
           peer_version_, timer_active, listener, paused, chan_alive, cipher,
           sent, written, on_complete, hasAesNi, hello, response, taken, ever>>

SentOfType(type) == SelectSeq(sent, LAMBDA m : m.type = type)

\* The ClientHello was one the claims call acceptable: a supported cipher,
\* a non-empty iv and a public key the key pair accepts.
WellFormedHello(h) ==
    /\ \/ BitAnd(h.encryption, ENCRYPTION_AES256_GCM) # 0
       \/ BitAnd(h.encryption, ENCRYPTION_CHACHA20_POLY1305) # 0
    /\ h.iv # 0
    /\ h.public_key = "good"

----------------------------------------------------------------------------
(* C1: onComplete is called at most once, and when it has been called the  *)
(* state is SUCCESS or FAILED (and not before); a call of onFailed after   *)
(* the channel was destroyed changes nothing of the program's state and    *)
(* does not call onComplete again.                                         *)
C1_OnCompleteOnce ==
    /\ [](/\ on_complete <= 1
          /\ (on_complete = 1) <=> (state_ \in Outcomes))
    /\ [][(channel_ = "null" /\ last'.op = "onFailed") => UNCHANGED progv]_vars

\* onFailed was called again after the authenticator had failed.
C1_Witness ==
    /\ last.op = "onFailed"
    /\ state_ = "FAILED"
    /\ channel_ = "null"
    /\ on_complete = 1

(* C2: a handshake that start() let begin (PENDING) reaches SUCCESS or     *)
(* FAILED with onComplete called; the expiry of the timer in PENDING moves *)
(* it to FAILED and calls onComplete.                                      *)
C2_TimeoutFails ==
    /\ (state_ = "PENDING") ~> (state_ \in Outcomes /\ on_complete = 1)
    /\ [][(last'.op = "onTimeout" /\ state_ = "PENDING")
             => (state_' = "FAILED" /\ on_complete' = on_complete + 1)]_vars

\* The timer expired on a handshake that had received nothing.
C2_Witness ==
    /\ last.op = "onTimeout"
    /\ state_ = "FAILED"
    /\ hello = <<>>
    /\ on_complete = 1

(* C3: a setter called when the state is not STOPPED returns false and     *)
(* leaves key_pair_, encrypt_iv_, anonymous_access_ and session_types_     *)
(* as they were.                                                           *)
C3_SettersRefused ==
    [][(state_ # "STOPPED" /\ last'.op \in Setters)
          => (last'.ret = FALSE /\ UNCHANGED configv)]_vars

\* setAnonymousAccess was called after the handshake had succeeded.
C3_Witness ==
    /\ state_ = "SUCCESS"
    /\ last.op = "setAnonymousAccess"
    /\ last.ret = FALSE

(* C4: start() with anonymous access ENABLE and an invalid key pair or     *)
(* session_types 0 ends in FAILED with onComplete called once, with no     *)
(* message sent, the listener never attached, the channel never resumed    *)
(* and the timer never armed.                                              *)
C4_StartRejects ==
    [][(/\ state_ = "STOPPED"
        /\ last'.op = "start"
        /\ anonymous_access_ = "ENABLE"
        /\ (key_pair_ # "valid" \/ session_types_ = 0))
          => (/\ state_' = "FAILED"
              /\ on_complete' = 1
              /\ sent' = <<>>
              /\ ever' = [armed |-> FALSE, attached |-> FALSE,
                          resumed |-> FALSE]
              /\ ~timer_active' /\ ~listener' /\ paused')]_vars

\* start() was called with anonymous access enabled and the key pair invalid.
C4_Witness ==
    /\ last.op = "start"
    /\ state_ = "FAILED"
    /\ anonymous_access_ = "ENABLE"
    /\ key_pair_ # "valid"
    /\ on_complete = 1

(* C5: with anonymous access ENABLE, once onClientHello has worked on an   *)
(* acceptable ClientHello with identify ANONYMOUS, ServerHello is the      *)
(* first message sent, no SrpServerKeyExchange and at most one             *)
(* SessionChallenge is sent, and a SessionResponse selecting one allowed   *)
(* bit ends in SUCCESS.                                                    *)
C5_AnonymousAccepted ==
    (/\ hello # <<>>
     /\ anonymous_access_ = "ENABLE"
     /\ hello[1].identify = "IDENTIFY_ANONYMOUS"
     /\ WellFormedHello(hello[1]))
       => /\ Len(sent) >= 1
          /\ sent[1].type = "ServerHello"
          /\ Len(SentOfType("SrpServerKeyExchange")) = 0
          /\ Len(SentOfType("SessionChallenge")) <= 1
          /\ (response # <<>> /\ sessionTypeAccepted(response[1].session_type))
                => state_ = "SUCCESS"

(* C6: with anonymous access DISABLE, once onClientHello has worked on a   *)
(* ClientHello with identify ANONYMOUS, the state is FAILED and no message *)
(* was sent.                                                               *)
C6_AnonymousRefused ==
    (/\ hello # <<>>
     /\ anonymous_access_ = "DISABLE"
     /\ hello[1].identify = "IDENTIFY_ANONYMOUS")
       => (state_ = "FAILED" /\ sent = <<>>)

(* C7: the cipher of every ServerHello sent, which is also encryption_ and *)
(* the cipher of the encryptor and decryptor installed, is AES256_GCM      *)
(* exactly when the ClientHello's bitmask has AES256_GCM and the CPU has   *)
(* AES-NI, and is CHACHA20_POLY1305 otherwise.                             *)
C7_CipherChoice ==
    \A i \in DOMAIN sent :
        sent[i].type = "ServerHello" =>
            LET aes == /\ hello # <<>>
                       /\ (hello[1].encryption % 2) = 1
                       /\ hasAesNi
            IN /\ hello # <<>>
               /\ sent[i].encryption = IF aes THEN 1 ELSE 2
               /\ encryption_ = sent[i].encryption
               /\ cipher # <<>> => cipher[1].encryption = sent[i].encryption

\* A ServerHello with AES256_GCM was sent and the cipher installed.
C7_Witness ==
    /\ Len(sent) >= 1
    /\ sent[1].type = "ServerHello"
    /\ sent[1].encryption = ENCRYPTION_AES256_GCM
    /\ cipher # <<>>

(* C8: the cipher of every ServerHello sent is one the ClientHello         *)
(* advertised.                                                             *)
C8_CipherAdvertised ==
    \A i \in DOMAIN sent :
        sent[i].type = "ServerHello" =>
            /\ hello # <<>>
            /\ BitAnd(hello[1].encryption, sent[i].encryption) # 0

(* C9: after a message was received in one of the SEND states, where no    *)
(* inbound message is expected, the state is FAILED and onComplete was     *)
(* called.                                                                 *)
C9_UnexpectedMessageFails ==
    (last.op = "onMessageReceived" /\ last.at \in SendStates)
       => (state_ = "FAILED" /\ on_complete = 1)

(* C10: in SUCCESS the selected session_type has exactly one bit, which is *)
(* in the session_types of the SessionChallenge sent; after a              *)
(* SessionResponse with no bit, several bits or a bit outside that mask    *)
(* the state is FAILED.                                                    *)
C10_SessionTypeChosen ==
    LET challenges == SentOfType("SessionChallenge")
        InAll(t) == \A i \in DOMAIN challenges :
                        BitAnd(challenges[i].session_types, t) # 0
        OneBit(t) == t \in {2 ^ k : k \in 0 .. (SessionBits + 1)}
    IN /\ state_ = "SUCCESS" =>
              /\ response # <<>>
              /\ session_type_ = response[1].session_type
              /\ OneBit(session_type_)
              /\ challenges # <<>>
              /\ InAll(session_type_)
       /\ (/\ response # <<>>
           /\ \/ ~OneBit(response[1].session_type)
              \/ ~InAll(response[1].session_type))
             => state_ = "FAILED"

\* A handshake succeeded.
C10_Witness ==
    /\ state_ = "SUCCESS"
    /\ response # <<>>
    /\ on_complete = 1

(* C11: once onIdentify has worked on a user name that is not in the list, *)
(* is not ENABLED or has an unknown SRP group, session_types_ is 0         *)
(* whatever setAnonymousAccess had stored; when B is valid the             *)
(* SrpServerKeyExchange is sent and carries the numbers of group 8192 and  *)
(* the salt made from the name; the state is never SUCCESS and is FAILED   *)
(* once a SessionResponse was worked on.                                   *)
DecoyUser(name) ==
    \/ ~userIsValid(name)
    \/ ~UserList[name].enabled
    \/ pairByGroup(UserList[name].group) = <<>>

C11_DecoyNeverSucceeds ==
    (user_name_ # "" /\ srp_ # NoSrp /\ DecoyUser(user_name_))
       => LET kx == SentOfType("SrpServerKeyExchange")
          IN /\ session_types_ = 0
             /\ isValid(srp_.B) <=> (Len(kx) = 1)
             /\ \A i \in DOMAIN kx :
                    /\ kx[i].number = kSrpNgPair_8192.N
                    /\ kx[i].generator = kSrpNgPair_8192.g
                    /\ kx[i].salt = DecoySalt(user_name_)
             /\ \A i \in DOMAIN sent :
                    sent[i].type = "SessionChallenge"
                       => sent[i].session_types = 0
             /\ state_ # "SUCCESS"
             /\ response # <<>> => state_ = "FAILED"

\* Anonymous access was enabled with session types, the client named a user
\* that is not enabled, the exchange went on to the SessionChallenge and the
\* SessionResponse that selected one bit was refused.
C11_Witness ==
    /\ anonymous_access_ = "ENABLE"
    /\ user_name_ # "" /\ srp_ # NoSrp /\ DecoyUser(user_name_)
    /\ Len(SentOfType("SessionChallenge")) = 1
    /\ response # <<>>
    /\ singleSessionType(response[1].session_type)
    /\ state_ = "FAILED"

(* C12: whenever the state is not SUCCESS, session_type_ has the value it  *)
(* had after construction (0).                                             *)
C12_SessionTypeOnlyOnSuccess ==
    state_ # "SUCCESS" => session_type_ = 0

(* C13: in FAILED the authenticator holds no channel and the channel was   *)
(* destroyed; takeChannel() returns the channel only in SUCCESS, and in    *)
(* the other states returns null and leaves channel_ as it was; at most    *)
(* one call of takeChannel() returns a channel.                            *)
C13_ChannelOwnership ==
    /\ [](/\ state_ = "FAILED" => (channel_ = "null" /\ ~chan_alive)
          /\ taken <= 1)
    /\ [][last'.op = "takeChannel"
            => /\ last'.ret = TRUE => (state_ = "SUCCESS" /\ channel_ = "held")
               /\ state_ # "SUCCESS"
                    => (last'.ret = FALSE /\ UNCHANGED progv)
               /\ (state_ = "SUCCESS" /\ channel_ = "held")
                    => (last'.ret = TRUE /\ channel_' = "null"
                        /\ taken' = taken + 1)]_vars

\* The channel was taken once and a second takeChannel() returned null.
C13_Witness ==
    /\ state_ = "SUCCESS"
    /\ taken = 1
    /\ channel_ = "null"
    /\ last.op = "takeChannel"
    /\ last.ret = FALSE

(* C14: once onComplete was called the authenticator is not the channel's  *)
(* listener and no onMessageReceived, onMessageWritten or onDisconnected   *)
(* is delivered to it; once onSessionResponse has run, and so in SUCCESS,  *)
(* the channel is paused.                                                  *)
ListenerCallbacks == {"onMessageReceived", "onMessageWritten", "onDisconnected"}

C14_NoCallbackAfterComplete ==
    /\ [](/\ on_complete >= 1 => ~listener
          /\ state_ = "SUCCESS" => paused
          /\ (last.op = "onMessageReceived"
              /\ last.at = "READ_SESSION_RESPONSE") => (paused /\ ~listener))
    /\ [][on_complete >= 1 => last'.op \notin ListenerCallbacks]_vars

\* The handshake succeeded on a SessionResponse and the channel is paused.
C14_Witness ==
    /\ state_ = "SUCCESS"
    /\ last.op = "onMessageReceived"
    /\ last.at = "READ_SESSION_RESPONSE"
    /\ paused
    /\ ~listener

----------------------------------------------------------------------------
(* Definitions the properties of the transfer share *)

\* The reply handled was the success of a packet written to the target.
PacketWritten(e) ==
    e.op = "onReply" /\ e.kind = "packet" /\ e.code = "FILE_ERROR_SUCCESS"

\* The error type a failed request raises (targetReply, sourceReply), "" when
\* the reply is no error.
ErrorTypeOf(kind, code) ==
    CASE kind = "create_directory" ->
             IF code \in {"FILE_ERROR_SUCCESS", "FILE_ERROR_PATH_ALREADY_EXISTS"}
             THEN "" ELSE "CREATE_DIRECTORY"
      [] code = "FILE_ERROR_SUCCESS" -> ""
      [] kind = "upload" ->
             IF code = "FILE_ERROR_PATH_ALREADY_EXISTS"
             THEN "ALREADY_EXISTS" ELSE "CREATE_FILE"
      [] kind = "download" -> "OPEN_FILE"
      [] kind = "packet_request" -> "READ_FILE"
      [] kind = "packet" -> "WRITE_FILE"
      [] OTHER -> "OTHER"

TaskIds(q) == {q[i].id : i \in DOMAIN q}

\* q2 is what is left of q1 after tasks were taken from its front.
IsSuffix(q2, q1) ==
    /\ Len(q2) <= Len(q1)
    /\ \A i \in DOMAIN q2 : q2[i].id = q1[i + Len(q1) - Len(q2)].id

\* The event e ends the front task: the reply to its create-directory
\* request, the reply to its packet that carried LAST_PACKET, an answer of
\* skip to its error, or an error reply that a stored skip resolves.
TerminalEvent(e, stored) ==
    \/ /\ e.op = "onReply" /\ e.kind = "create_directory"
       /\ ErrorTypeOf(e.kind, e.code) = ""
    \/ PacketWritten(e) /\ e.last_packet
    \/ e.op = "setAction" /\ e.action \in {"ACTION_SKIP", "ACTION_SKIP_ALL"}
    \/ /\ e.op = "onReply"
       /\ ErrorTypeOf(e.kind, e.code) # ""
       /\ stored[ErrorTypeOf(e.kind, e.code)] = "ACTION_SKIP_ALL"

(* C15: total_transfered_size_ never exceeds total_size_.                  *)
C15_TotalWithinSize ==
    total_transfered_size_ <= total_size_

(* C16: the reply to a packet written without error, of a file task of     *)
(* nonzero size, adds to total_transfered_size_ the smaller of             *)
(* kMaxFilePacketSize and what was left of the task before the packet.     *)
C16_PacketCharge ==
    [][(/\ PacketWritten(ft_last')
        /\ tasks_ # <<>>
        /\ tasks_[1].size # 0)
          => total_transfered_size_' - total_transfered_size_
                = Min(kMaxFilePacketSize,
                      tasks_[1].size - task_transfered_size_)]_ftvars

(* C17: task_transfered_size_ is at most the size of the front task, and   *)
(* whenever doFrontTask has run (a task started, or started again after    *)
(* REPLACE) task_transfered_size_ and task_percentage_ are 0.              *)
C17_TaskWithinSize ==
    /\ tasks_ # <<>> =>
          /\ 0 <= task_transfered_size_
          /\ task_transfered_size_ <= tasks_[1].size
    /\ ft_last.front =>
          (task_transfered_size_ = 0 /\ task_percentage_ = 0)

\* The second task was started after bytes of the first were counted.
C17_Witness ==
    /\ ft_last.front
    /\ tasks_ # <<>>
    /\ tasks_[1].id = 2
    /\ total_transfered_size_ > 0
    /\ task_transfered_size_ = 0

(* C18: at most one file request of the coordinator awaits its reply; a    *)
(* request is issued only by the handler of a reply, or by the start of a  *)
(* task (by the queue builder's result or by an answer to an error) while  *)
(* no request is awaiting its reply.                                       *)
C18_OneRequestInFlight ==
    /\ [](Len(requests) <= 1)
    /\ [][(IF ft_last'.op = "onReply"
           THEN requests' # <<>>
           ELSE Len(requests') > Len(requests))
             => \/ ft_last'.op = "onReply"
                \/ /\ ft_last'.op \in {"queueBuilt", "setAction"}
                   /\ ft_last'.front
                   /\ requests = <<>>]_ftvars

\* The answer to an error started the task again, with nothing in flight
\* before and one request after.
C18_Witness ==
    /\ ft_last.op = "setAction"
    /\ ft_last.action = "ACTION_REPLACE"
    /\ ft_last.front
    /\ Len(requests) = 1

(* C19, as stated: tasks leave the queue from its front, one at a time,    *)
(* and only by an event that ends the front task; a task that is not at    *)
(* the front is never removed.                                             *)
C19_PoppedOnlyWhenEnded ==
    [][TaskIds(tasks_) \ TaskIds(tasks_') # {} =>
          /\ IsSuffix(tasks_', tasks_)
          /\ TerminalEvent(ft_last', actions_')
          /\ TaskIds(tasks_) \ TaskIds(tasks_') = {tasks_[1].id}]_ftvars

(* C19, amended: tasks leave the queue from its front and only by an       *)
(* event that ends the front task; the front task leaves alone, except     *)
(* that once is_canceled_ is set the event that ends the front task        *)
(* removes every task of the queue, started or not.                        *)
C19_PoppedOnlyWhenEndedOrCanceled ==
    [][TaskIds(tasks_) \ TaskIds(tasks_') # {} =>
          /\ IsSuffix(tasks_', tasks_)
          /\ TerminalEvent(ft_last', actions_')
          /\ tasks_[1].id \in TaskIds(tasks_) \ TaskIds(tasks_')
          /\ \/ TaskIds(tasks_) \ TaskIds(tasks_') = {tasks_[1].id}
             \/ is_canceled_ /\ tasks_' = <<>>]_ftvars

\* The reply to the packet that carried LAST_PACKET took the first task
\* from the queue and started the second.
C19_Witness ==
    /\ PacketWritten(ft_last)
    /\ ft_last.last_packet
    /\ ft_last.front
    /\ tasks_ # <<>>
    /\ tasks_[1].id = 2

(* C20: the finish callback is called at most once, the window is told to  *)
(* stop at most once, and the window is told before the callback is        *)
(* called.                                                                 *)
C20_FinishedOnce ==
    calls \in {<<>>, <<"window.stop", "finish_callback">>}

\* The cancel timer expired after the transfer had finished by ABORT.
C20_Witness ==
    /\ calls = <<"window.stop", "finish_callback">>
    /\ ft_last.op = "onCancelTimer"
    /\ ~ft_last.finished

(* C21: once stop() was called on a started transfer that has not          *)
(* finished, the finish callback is called: by stop() itself when the      *)
(* queue is still being built, and otherwise at the latest by the          *)
(* callback of the 5-second timer, which stays active until the transfer   *)
(* has finished, whatever replies and answers arrive or fail to arrive.    *)
C21_StopFinishes ==
    /\ [][(ft_last'.op = "stop" /\ queue_builder_ # "null" /\ finish_callback_)
             => (ft_last'.finished /\ ~finish_callback_')]_ftvars
    /\ [][(ft_last'.op = "stop" /\ queue_builder_ = "null" /\ finish_callback_)
             => (is_canceled_' /\ cancel_timer_')]_ftvars
    /\ []((is_canceled_ /\ finish_callback_) => cancel_timer_)
    /\ [][ft_last'.op = "onCancelTimer" => ~finish_callback_']_ftvars
    /\ (is_canceled_ /\ finish_callback_) ~> ~finish_callback_

\* The timer finished the transfer while a request was still awaiting its
\* reply.
C21_Witness ==
    /\ ft_last.op = "onCancelTimer"
    /\ ft_last.finished
    /\ is_canceled_
    /\ requests # <<>>
    /\ calls = <<"window.stop", "finish_callback">>

\* The handler of a reply issued a packet request to the source: the reply
\* left the requests in flight and a request joined them.
IssuedPacketRequest ==
    /\ ft_last'.op = "onReply"
    /\ Len(requests') >= Len(requests)
    /\ requests' # <<>>
    /\ requests'[Len(requests')].kind = "packet_request"

(* C22: a packet request issued while is_canceled_ is set carries CANCEL,  *)
(* the one issued on the reply to the upload request included; a packet    *)
(* request issued while is_canceled_ is not set carries no flag.           *)
C22_CancelFlag ==
    [][IssuedPacketRequest
          => requests'[Len(requests')].cancel = is_canceled_]_ftvars

AllActions == {"ACTION_SKIP_ALL", "ACTION_REPLACE_ALL"}

\* The step handled a reply that is an error of the type, for a queue that
\* has a front task.
ErrorRaised(type) ==
    /\ ft_last'.op = "onReply"
    /\ tasks_ # <<>>
    /\ ErrorTypeOf(ft_last'.kind, ft_last'.code) = type

\* The step did to the front task what the action asks for: skip takes it
\* from the queue, replace starts it again with overwrite set.
ResolvedWith(action) ==
    IF action = "ACTION_SKIP_ALL"
    THEN tasks_[1].id \notin TaskIds(tasks_')
    ELSE /\ ft_last'.front
         /\ tasks_' # <<>>
         /\ tasks_'[1].id = tasks_[1].id
         /\ tasks_'[1].overwrite

(* C23: an answer of SKIP_ALL or REPLACE_ALL to an error of a type is      *)
(* stored for that type and stays stored; a later error of that type is    *)
(* resolved with the stored action and the window is not asked; an error   *)
(* of a type with nothing stored is given to the window; an answer of      *)
(* SKIP, REPLACE or ABORT stores nothing.                                  *)
C23_StickyActions ==
    /\ [][ft_last'.op = "setAction" =>
            IF ft_last'.action \in AllActions
            THEN actions_' = [actions_ EXCEPT ![ft_last'.kind] =
                                                  ft_last'.action]
            ELSE actions_' = actions_]_ftvars
    /\ [][\A type \in ErrorTypes :
             /\ actions_[type] # "NONE" => actions_'[type] = actions_[type]
             /\ ErrorRaised(type) =>
                   IF actions_[type] # "NONE"
                   THEN /\ ~ft_last'.asked
                        /\ prompt' = prompt
                        /\ ResolvedWith(actions_[type])
                   ELSE /\ ft_last'.asked
                        /\ prompt' = Append(prompt,
                                            [type |-> type,
                                             code |-> ft_last'.code])
                        /\ tasks_' = tasks_]_ftvars

\* REPLACE_ALL is stored for ALREADY_EXISTS, SKIP_ALL for no type; the
\* upload of the front task failed again because the path exists, and the
\* task was started again without asking the window.
C23_Witness ==
    /\ ft_last.op = "onReply"
    /\ ErrorTypeOf(ft_last.kind, ft_last.code) = "ALREADY_EXISTS"
    /\ actions_["ALREADY_EXISTS"] = "ACTION_REPLACE_ALL"
    /\ actions_["CREATE_FILE"] = "NONE"
    /\ ~ft_last.asked
    /\ ft_last.front
    /\ prompt = <<>>

\* The table of the actions an error type offers, as it is specified:
\* OTHER and QUEUE offer ACTION_ABORT alone.
SpecifiedActions(type) ==
    CASE type \in {"CREATE_DIRECTORY", "CREATE_FILE", "OPEN_FILE", "WRITE_FILE",
                   "READ_FILE"} ->
             {"ACTION_ABORT", "ACTION_SKIP", "ACTION_SKIP_ALL"}
      [] type = "ALREADY_EXISTS" ->
             {"ACTION_ABORT", "ACTION_SKIP", "ACTION_SKIP_ALL",
              "ACTION_REPLACE", "ACTION_REPLACE_ALL"}
      [] type \in {"OTHER", "QUEUE"} -> {"ACTION_ABORT"}

(* C24: for every error type, QUEUE included, and so for every error the   *)
(* window was given, availableActions() is the set of actions of the       *)
(* specified table and defaultAction() is ACTION_ASK.                      *)
C24_ActionsTable ==
    \A type \in ErrorTypes \cup {prompt[i].type : i \in DOMAIN prompt} :
       /\ availableActions(type) = SpecifiedActions(type)
       /\ defaultAction(type) = "ACTION_ASK"

SourceKinds == {"download", "packet_request"}

(* C25: after start() the source factory is REMOTE and the target factory  *)
(* LOCAL in a DOWNLOADER, and the reverse in an UPLOADER; download and     *)
(* packet requests are built by the source factory and the other requests  *)
(* by the target factory; the reply to a request built by the source       *)
(* factory is handled by sourceReply and the reply to a request built by   *)
(* the target factory by targetReply.                                      *)
C25_Routing ==
    /\ [](request_factory_source_ # "null" =>
            /\ request_factory_source_ =
                  IF type_ = "DOWNLOADER" THEN "REMOTE" ELSE "LOCAL"
            /\ request_factory_target_ =
                  IF type_ = "DOWNLOADER" THEN "LOCAL" ELSE "REMOTE")
    /\ [](\A i \in DOMAIN requests :
            requests[i].target = IF requests[i].kind \in SourceKinds
                                 THEN request_factory_source_
                                 ELSE request_factory_target_)
    /\ [][ft_last'.op = "onReply" =>
            \E i \in DOMAIN requests :
               /\ requests[i].kind = ft_last'.kind
               /\ ft_last'.handler =
                     IF requests[i].target = request_factory_source_
                     THEN "sourceReply" ELSE "targetReply"]_ftvars

\* An UPLOADER gave the reply of the remote endpoint to targetReply.
C25_Witness ==
    /\ type_ = "UPLOADER"
    /\ request_factory_target_ = "REMOTE"
    /\ ft_last.op = "onReply"
    /\ ft_last.kind = "packet"
    /\ ft_last.handler = "targetReply"

\* The authenticator's part of C26: onComplete was called with the
\* 60-second timer stopped, and the timer is not started afterwards.
TimerStoppedAtComplete ==
    on_complete > 0 => ~timer_active

(* C26: when the finish callback of the transfer is called the 5-second    *)
(* cancel timer is not active, on every path that finishes; and when the   *)
(* authenticator calls onComplete its 60-second timer is not active.       *)
C26_TimersStoppedAtFinish ==
    /\ ft_last.finished => ~cancel_timer_
    /\ TimerStoppedAtComplete

\* The step is the completion of a write, handled in the internal state,
\* that did not end in onFailed.
Written(at) ==
    /\ last'.op = "onMessageWritten"
    /\ last'.at = at
    /\ state_' = "PENDING"

(* C27: the completion of the write of ServerHello with identify_ =        *)
(* IDENTIFY_ANONYMOUS sends SessionChallenge and sets internal_state_ to   *)
(* SEND_SESSION_CHALLENGE; the completion of the write of SessionChallenge *)
(* sets it to READ_SESSION_RESPONSE, where a message received is given to  *)
(* onSessionResponse.                                                      *)
C27_AnonymousChallenge ==
    /\ [][(Written("SEND_SERVER_HELLO") /\ identify_ = "IDENTIFY_ANONYMOUS")
             => /\ sent' = Append(sent, SessionChallenge(session_types_))
                /\ internal_state_' = "SEND_SESSION_CHALLENGE"]_vars
    /\ [][Written("SEND_SESSION_CHALLENGE")
             => internal_state_' = "READ_SESSION_RESPONSE"]_vars
    /\ [][(last'.op = "onMessageReceived" /\ identify_ = "IDENTIFY_ANONYMOUS"
           /\ written >= 2)
             => last'.at = "READ_SESSION_RESPONSE"]_vars

\* The step sent a SessionChallenge.
ChallengeSent ==
    /\ Len(sent') = Len(sent) + 1
    /\ sent'[Len(sent')].type = "SessionChallenge"

\* The channel holds an encryptor and a decryptor made of the session key
\* that the SRP key went into and of the two IVs, none of them empty.
SrpCipherInstalled(c, key, eiv, div) ==
    /\ c = Installed(encryption_, key, eiv, div)
    /\ key.srp # NullNum
    /\ eiv # 0
    /\ div # 0

(* C28: in the SRP path a SessionChallenge is sent only by the step that   *)
(* installed in the channel the encryptor and decryptor of the session key *)
(* made with the SRP key and of the IVs of the key exchange, for an A that *)
(* is not 0 modulo N; a message handled in READ_CLIENT_KEY_EXCHANGE that   *)
(* sends no SessionChallenge ends in FAILED and leaves the cipher as it    *)
(* was; SUCCESS of an SRP handshake implies such a cipher is installed.    *)
C28_CipherBeforeChallenge ==
    /\ [][(identify_ = "IDENTIFY_SRP" /\ ChallengeSent)
             => /\ last'.op = "onMessageReceived"
                /\ last'.at = "READ_CLIENT_KEY_EXCHANGE"
                /\ SrpCipherInstalled(cipher', session_key_', encrypt_iv_,
                                      decrypt_iv_')
                /\ verify_A_mod_N(srp_'.A, srp_.N)
                /\ state_' = "PENDING"]_vars
    /\ [][(last'.op = "onMessageReceived"
           /\ last'.at = "READ_CLIENT_KEY_EXCHANGE"
           /\ ~ChallengeSent)
             => (state_' = "FAILED" /\ sent' = sent /\ cipher' = cipher)]_vars
    /\ []((state_ = "SUCCESS" /\ identify_ = "IDENTIFY_SRP")
             => SrpCipherInstalled(cipher, session_key_, encrypt_iv_,
                                   decrypt_iv_))

\* An SRP handshake succeeded.
C28_Witness ==
    /\ state_ = "SUCCESS"
    /\ identify_ = "IDENTIFY_SRP"
    /\ last.op = "onMessageReceived"
    /\ last.at = "READ_SESSION_RESPONSE"
    /\ cipher # <<>>
    /\ cipher[1].key.srp # NullNum

\* onIdentify found the user: in the list, ENABLED, with a known group.
UserIdentified ==
    /\ identify_ = "IDENTIFY_SRP"
    /\ user_name_ # ""
    /\ srp_ # NoSrp
    /\ ~DecoyUser(user_name_)

(* C29: once onIdentify has found the user (in the list, ENABLED, with a   *)
(* known group), session_types_ is the sessions field of that user,        *)
(* whatever setAnonymousAccess had stored; the SessionChallenge carries    *)
(* that field, and a SessionResponse is accepted only for a session type   *)
(* of that field.                                                          *)
C29_SrpSessionTypes ==
    /\ [](UserIdentified =>
            /\ session_types_ = UserList[user_name_].sessions
            /\ \A i \in DOMAIN sent :
                  sent[i].type = "SessionChallenge" =>
                     sent[i].session_types = UserList[user_name_].sessions)
    /\ [][(UserIdentified /\ state_ = "PENDING" /\ state_' = "SUCCESS")
             => BitAnd(UserList[user_name_].sessions, session_type_') # 0]_vars

\* An SRP handshake of a user of the list succeeded while anonymous access
\* was enabled, and the challenge carried the user's session types.
C29_Witness ==
    /\ UserIdentified
    /\ anonymous_access_ = "ENABLE"
    /\ state_ = "SUCCESS"
    /\ Len(SentOfType("SessionChallenge")) = 1
    /\ SentOfType("SessionChallenge")[1].session_types
          = UserList[user_name_].sessions

\* The packets a source sends of a file of the size: the file in pieces of
\* kMaxFilePacketSize, and one empty packet of an empty file.
PacketsOf(size) ==
    IF size = 0 THEN 1
    ELSE (size + kMaxFilePacketSize - 1) \div kMaxFilePacketSize

\* The request that starts the task: create directory, or download.
FirstRequest(task) ==
    IF task.is_directory
    THEN Request(request_factory_target_, "create_directory", task, FALSE,
                 FALSE, FALSE)
    ELSE Request(request_factory_source_, "download", task, FALSE, FALSE,
                 FALSE)

\* What the coordinator does on the reply without error to the request, for
\* the front task of the queue.
FileTaskStep(request) ==
    CASE request.kind = "download" ->
           /\ requests' = <<Request(request_factory_target_, "upload",
                                    tasks_[1], tasks_[1].overwrite, FALSE,
                                    FALSE)>>
           /\ tasks_' = tasks_
      [] request.kind = "upload" ->
           /\ requests' = <<Request(request_factory_source_, "packet_request",
                                    NoTask, FALSE, FALSE, FALSE)>>
           /\ packet_requests' = 1
           /\ tasks_' = tasks_
      [] request.kind = "packet_request" ->
           /\ requests' = <<Request(request_factory_target_, "packet", NoTask,
                                    FALSE, FALSE,
                                    packetOf(request, source_file).last_packet)>>
           /\ packet_requests' = packet_requests
           /\ tasks_' = tasks_
      [] request.kind = "packet" /\ ~request.last_packet ->
           /\ requests' = <<Request(request_factory_source_, "packet_request",
                                    NoTask, FALSE, is_canceled_, FALSE)>>
           /\ packet_requests' = packet_requests + 1
           /\ tasks_' = tasks_
      [] request.kind = "packet" /\ request.last_packet ->
           /\ ~is_canceled_ => packet_requests = PacketsOf(tasks_[1].size)
           /\ IF is_canceled_ \/ Len(tasks_) = 1
              THEN /\ tasks_' = <<>>
                   /\ requests' = <<>>
                   /\ ft_last'.finished = finish_callback_
                   /\ ~finish_callback_'
              ELSE /\ Len(tasks_') = Len(tasks_) - 1
                   /\ tasks_'[1].id = tasks_[2].id
                   /\ ft_last'.front
                   /\ ~ft_last'.finished
                   /\ requests' = <<FirstRequest(tasks_'[1])>>
      [] OTHER -> TRUE

(* C30: on the replies without error of a file task the coordinator        *)
(* issues, one at a time: after download, upload with the overwrite flag   *)
(* of the task; after upload, a packet request without flags; after a      *)
(* packet request, the packet of the reply; after a packet without         *)
(* LAST_PACKET, the next packet request; after the packet with LAST_PACKET *)
(* it starts the next task, or finishes when none is left. When the        *)
(* transfer was not canceled, the packet requests of the task are then as  *)
(* many as the packets of the file.                                        *)
C30_FileTaskOrder ==
    [][(/\ ft_last'.op = "onReply"
        /\ ft_last'.code = "FILE_ERROR_SUCCESS"
        /\ tasks_ # <<>>
        /\ Len(requests) = 1)
          => FileTaskStep(requests[1])]_ftvars

\* A queue of one file of the largest size was transferred without stop():
\* the reply to the packet that carried LAST_PACKET finished the transfer
\* after as many packet requests as the file has packets, more than one.
C30_Witness ==
    /\ PacketWritten(ft_last)
    /\ ft_last.last_packet
    /\ ft_last.finished
    /\ ~is_canceled_
    /\ total_size_ = MaxFileSize
    /\ total_transfered_size_ > kMaxFilePacketSize
    /\ packet_requests = PacketsOf(MaxFileSize)
    /\ PacketsOf(MaxFileSize) > 1
    /\ requests = <<>>

\* The error type the claim gives for the failed request and its code, ""
\* for a reply that is no error.
RaisedType(kind, code) ==
    CASE kind = "create_directory" ->
             IF code \in {"FILE_ERROR_SUCCESS", "FILE_ERROR_PATH_ALREADY_EXISTS"}
             THEN "" ELSE "CREATE_DIRECTORY"
      [] code = "FILE_ERROR_SUCCESS" -> ""
      [] kind = "download" -> "OPEN_FILE"
      [] kind = "upload" /\ code = "FILE_ERROR_PATH_ALREADY_EXISTS" ->
             "ALREADY_EXISTS"
      [] kind = "upload" -> "CREATE_FILE"
      [] kind = "packet_request" -> "READ_FILE"
      [] kind = "packet" -> "WRITE_FILE"

(* C31: a reply that is an error, handled while the queue has a front task *)
(* and no action is stored for its type, gives the window one error of the *)
(* type that the request and the code determine, with the code of the      *)
(* reply, issues no request and leaves the queue as it is; the reply to a  *)
(* create-directory request with SUCCESS or PATH_ALREADY_EXISTS raises no  *)
(* error and takes the directory from the queue.                           *)
C31_ErrorTypeRaised ==
    [][(ft_last'.op = "onReply" /\ tasks_ # <<>> /\ Len(requests) = 1)
          => LET kind == requests[1].kind
                 code == ft_last'.code
                 type == RaisedType(kind, code)
             IN /\ ft_last'.kind = kind
                /\ (type # "" /\ actions_[type] = "NONE") =>
                      /\ prompt' = Append(prompt,
                                          [type |-> type, code |-> code])
                      /\ requests' = <<>>
                      /\ tasks_' = tasks_
                      /\ ~ft_last'.finished
                /\ type = "" =>
                      /\ prompt' = prompt
                      /\ ~ft_last'.asked
                /\ (kind = "create_directory" /\ type = "") =>
                      tasks_[1].id \notin TaskIds(tasks_')]_ftvars

\* The target answered the upload of the front task with PATH_ALREADY_EXISTS:
\* the window has the error ALREADY_EXISTS, nothing is in flight and the
\* task is still at the front.
C31_Witness ==
    /\ ft_last.op = "onReply"
    /\ ft_last.kind = "upload"
    /\ ft_last.code = "FILE_ERROR_PATH_ALREADY_EXISTS"
    /\ prompt = <<[type |-> "ALREADY_EXISTS",
                   code |-> "FILE_ERROR_PATH_ALREADY_EXISTS"]>>
    /\ requests = <<>>
    /\ tasks_ # <<>>
    /\ ~tasks_[1].is_directory

\* The step applied the action to an error of the front task: the window's
\* answer, or the action stored for the type of an error reply.
Applied(action) ==
    /\ tasks_ # <<>>
    /\ \/ ft_last'.op = "setAction" /\ ft_last'.action = action
       \/ /\ ft_last'.op = "onReply"
          /\ ErrorTypeOf(ft_last'.kind, ft_last'.code) # ""
          /\ actions_[ErrorTypeOf(ft_last'.kind, ft_last'.code)] = action

\* What is in flight besides the reply that the step handled.
StillInFlight ==
    IF ft_last'.op = "onReply" THEN <<>> ELSE requests

\* The step finished the transfer, if it had not finished, and issued
\* nothing.
FinishedByStep ==
    /\ requests' = StillInFlight
    /\ ~finish_callback_'
    /\ ft_last'.finished = finish_callback_

\* The step took the front task from the queue and started the next one.
NextStarted ==
    /\ tasks_' = Tail(tasks_)
    /\ ~tasks_'[1].overwrite
    /\ ft_last'.front
    /\ ~ft_last'.finished
    /\ requests' = Append(StillInFlight, FirstRequest(tasks_'[1]))

\* The step started the front task again with overwrite set.
Restarted ==
    /\ tasks_' = [tasks_ EXCEPT ![1].overwrite = TRUE]
    /\ ft_last'.front
    /\ ~ft_last'.finished
    /\ requests' = Append(StillInFlight, FirstRequest(tasks_'[1]))

\* What C32 says of ABORT, of REPLACE and REPLACE_ALL, and of the overwrite
\* flag of upload requests and of tasks started otherwise.
AbortReplaceOverwrite ==
    /\ [][(ft_last'.op = "setAction" /\ ft_last'.action = "ACTION_ABORT")
             => (FinishedByStep /\ tasks_' = tasks_)]_ftvars
    /\ [][(Applied("ACTION_REPLACE") \/ Applied("ACTION_REPLACE_ALL"))
             => Restarted]_ftvars
    /\ [][(ft_last'.front
           /\ ~(Applied("ACTION_REPLACE") \/ Applied("ACTION_REPLACE_ALL")))
             => ~tasks_'[1].overwrite]_ftvars
    /\ [](\A i \in DOMAIN requests :
             requests[i].kind = "upload" =>
                /\ tasks_ # <<>>
                /\ requests[i].path = tasks_[1].id
                /\ requests[i].overwrite = tasks_[1].overwrite)

(* C32, as stated: ABORT finishes the transfer and issues no request; SKIP *)
(* and SKIP_ALL take the front task from the queue and start the next one, *)
(* finishing when none is left; REPLACE and REPLACE_ALL start the front    *)
(* task again with overwrite set, the queue otherwise unchanged; an upload *)
(* request carries the overwrite flag of the front task, which is not set  *)
(* for a task started in any other way.                                    *)
C32_ActionApplied ==
    /\ AbortReplaceOverwrite
    /\ [][(Applied("ACTION_SKIP") \/ Applied("ACTION_SKIP_ALL"))
             => IF Len(tasks_) = 1
                THEN tasks_' = <<>> /\ FinishedByStep
                ELSE NextStarted]_ftvars

(* C32, amended: as stated, except that SKIP and SKIP_ALL applied once     *)
(* is_canceled_ is set take every task from the queue and finish the       *)
(* transfer instead of starting the next task.                             *)
C32_ActionAppliedOrCanceled ==
    /\ AbortReplaceOverwrite
    /\ [][(Applied("ACTION_SKIP") \/ Applied("ACTION_SKIP_ALL"))
             => IF Len(tasks_) = 1 \/ is_canceled_
                THEN tasks_' = <<>> /\ FinishedByStep
                ELSE NextStarted]_ftvars

\* REPLACE was answered to ALREADY_EXISTS, the download of the same task
\* succeeded again, and the upload in flight carries overwrite.
C32_Witness ==
    /\ ft_last.op = "onReply"
    /\ ft_last.kind = "download"
    /\ ft_last.code = "FILE_ERROR_SUCCESS"
    /\ actions_["ALREADY_EXISTS"] = "NONE"
    /\ Len(requests) = 1
    /\ requests[1].kind = "upload"
    /\ requests[1].overwrite
    /\ Len(tasks_) = MaxTasks

\* A started transfer that has finished with no builder, no task, no
\* request in flight and no error with the window.
Dropped ==
    /\ request_factory_source_ # "null"
    /\ queue_builder_ = "null"
    /\ ~finish_callback_
    /\ tasks_ = <<>>
    /\ requests = <<>>
    /\ prompt = <<>>

(* C33: stop() called while the queue builder runs destroys the builder    *)
(* and calls the finish callback, once; it leaves is_canceled_ false and   *)
(* the cancel timer not started; and from then on the transfer has no      *)
(* builder, no task and no request in flight, whatever happens.            *)
C33_StopWhileBuilding ==
    /\ [][(ft_last'.op = "stop" /\ queue_builder_ # "null")
             => /\ Dropped'
                /\ calls' = <<"window.stop", "finish_callback">>
                /\ ft_last'.finished
                /\ ~is_canceled_'
                /\ ~cancel_timer_']_ftvars
    /\ [][Dropped => (Dropped' /\ calls' = calls)]_ftvars

\* stop() came while the builder ran.
C33_Witness ==
    /\ ft_last.op = "stop"
    /\ ft_last.finished
    /\ Dropped
    /\ ~is_canceled_
    /\ ~cancel_timer_
    /\ total_size_ = 0

\* C34: a progress notification gives the window a pair of percentages
\* that differs from the pair the window was given last; the same
\* (total, task) pair is never sent twice in a row.
C34_ProgressOnChange ==
    [][ft_last'.notified => progress' # progress]_ftvars

Unexpected(e) == e.op = "onReply" /\ e.kind \notin handledKinds(e.handler)

NothingToWindow ==
    /\ prompt' = prompt
    /\ calls' = calls
    /\ progress' = progress
    /\ ~ft_last'.asked /\ ~ft_last'.notified /\ ~ft_last'.front
    /\ ~ft_last'.finished

\* C35: a reply whose request its handler has no branch for (a target
\* reply that is not of create_directory / upload / packet, a source reply
\* that is not of download / packet_request) gives the window the error
\* OTHER with code UNKNOWN, whose only available action is ABORT, and
\* issues no request; a reply that arrives while the queue is empty changes
\* nothing and reaches neither the window nor the peers.
C35_UnexpectedReply ==
    /\ [][(Unexpected(ft_last') /\ tasks_ # <<>>)
             => /\ prompt' = Append(prompt, [type |-> "OTHER",
                                             code |-> "FILE_ERROR_UNKNOWN"])
                /\ ft_last'.asked
                /\ availableActions(prompt'[Len(prompt')].type)
                      = {"ACTION_ABORT"}
                /\ requests' = requests
                /\ tasks_' = tasks_
                /\ UNCHANGED <<finish_callback_, actions_, calls, progress,
                               is_canceled_, cancel_timer_>>]_ftvars
    /\ [][(ft_last'.op = "onReply" /\ tasks_ = <<>>)
             => /\ NothingToWindow
                /\ Len(requests') <= Len(requests)
                /\ \A i \in DOMAIN requests' :
                      \E j \in DOMAIN requests : requests'[i] = requests[j]
                /\ UNCHANGED <<tasks_, finish_callback_, actions_,
                               is_canceled_, cancel_timer_,
                               total_transfered_size_,
                               task_transfered_size_>>]_ftvars

C35_Witness ==
    /\ Unexpected(ft_last)
    /\ ft_last.handler = "sourceReply"
    /\ tasks_ # <<>>
    /\ requests # <<>>
    /\ prompt = <<[type |-> "OTHER", code |-> "FILE_ERROR_UNKNOWN"]>>

ServerMessages == <<"ServerHello", "SrpServerKeyExchange", "SessionChallenge">>

InternalStates ==
    <<"READ_CLIENT_HELLO", "SEND_SERVER_HELLO", "READ_IDENTIFY",
      "SEND_SERVER_KEY_EXCHANGE", "READ_CLIENT_KEY_EXCHANGE",
      "SEND_SESSION_CHALLENGE", "READ_SESSION_RESPONSE">>

IndexIn(seq, x) == CHOOSE i \in DOMAIN seq : seq[i] = x

(* C36: within one handshake each of ServerHello, SrpServerKeyExchange and *)
(* SessionChallenge is sent at most once and in that order; the internal   *)
(* state never moves backward in the order READ_CLIENT_HELLO ...           *)
(* READ_SESSION_RESPONSE; and the completion of a write sends no message   *)
(* of a type that was sent before.                                         *)
C36_SentOnceInOrder ==
    /\ [](\A i, j \in DOMAIN sent :
             i < j => IndexIn(ServerMessages, sent[i].type)
                         < IndexIn(ServerMessages, sent[j].type))
    /\ [][IndexIn(InternalStates, internal_state_')
             >= IndexIn(InternalStates, internal_state_)]_vars
    /\ [][(last'.op = "onMessageWritten" /\ Len(sent') > Len(sent))
             => \A i \in DOMAIN sent :
                   sent[i].type # sent'[Len(sent')].type]_vars

(* C37: a setter that returns false, in the state STOPPED as in any other, *)
(* leaves key_pair_, encrypt_iv_, anonymous_access_ and session_types_ as  *)
(* they were, so that anonymous_access_ = ENABLE always goes with a valid  *)
(* key pair and a session_types_ that is not zero.                         *)
C37_FailedSetterKeeps ==
    /\ [][(last'.op \in Setters /\ ~last'.ret) => UNCHANGED configv]_vars
    /\ [](anonymous_access_ = "ENABLE"
             => (key_pair_ = "valid" /\ session_types_ # 0))

\* The step ends the front task: its last packet was written, its
\* directory was made, or its error was resolved by skipping.
TaskBoundary == tasks_ # <<>> /\ TerminalEvent(ft_last', actions_')

(* C38: is_canceled_ never returns to false. Once it is true, a step that  *)
(* starts a task restarts the front task on a REPLACE or REPLACE_ALL, and  *)
(* no other task is started: the next end of a task, by its last reply or  *)
(* by a skip, empties the whole queue, stops the cancel timer and finishes *)
(* the transfer.                                                           *)
C38_CanceledStartsNothing ==
    /\ [][is_canceled_ => is_canceled_']_ftvars
    /\ [][(is_canceled_ /\ ft_last'.front)
             => /\ Applied("ACTION_REPLACE") \/ Applied("ACTION_REPLACE_ALL")
                /\ Restarted]_ftvars
    /\ [][(is_canceled_ /\ TaskBoundary)
             => /\ tasks_' = <<>>
                /\ ~cancel_timer_'
                /\ FinishedByStep]_ftvars

\* After stop() the last packet of a file was written and the transfer
\* finished with an empty queue, although not all of the queue's bytes had
\* been transferred.
C38_Witness ==
    /\ is_canceled_
    /\ PacketWritten(ft_last)
    /\ ft_last.finished
    /\ tasks_ = <<>>
    /\ ~cancel_timer_
    /\ total_transfered_size_ < total_size_

(* C39: a transfer that was started calls its finish callback in the end,  *)
(* when the queue builder reports, every request is replied to, every file *)
(* ends with a last packet and every error given to the window is          *)
(* answered; a stored SKIP_ALL or REPLACE_ALL does not repeat a task       *)
(* for ever.                                                               *)
C39_EventuallyFinishes == finish_callback_ ~> ~finish_callback_

\* start() was called and the finish callback has been called since.
Finished == request_factory_source_ # "null" /\ ~finish_callback_

(* C40: once the finish callback was called (after the last task, on       *)
(* ABORT, on stop() during building, or when the cancel timer expired with *)
(* a request in flight) no step issues a request or gives the window a     *)
(* progress, a current item or an error, a late reply included.            *)
C40_SilentAfterFinish ==
    [][Finished
          => /\ \/ requests' = requests
                \/ \E i \in DOMAIN requests : requests' = Without(requests, i)
             /\ prompt' = prompt
                   \/ \E i \in DOMAIN prompt : prompt' = Without(prompt, i)
             /\ progress' = progress
             /\ ~ft_last'.asked
             /\ ~ft_last'.notified
             /\ ~ft_last'.front]_ftvars

====
